---------------------------- MODULE Spec2Model ----------------------------
(***************************************************************************)
(* A model of the SimEng pipeline engine: the memory management unit      *)
(* (src/lib/memory/MMU.cc), the load/store queue                          *)
(* (src/lib/pipeline/LoadStoreQueue.cc), the in-order core's retirement   *)
(* path, status and exceptions (src/lib/models/inorder/Core.cc), the      *)
(* reorder buffer (src/outoforder/ReorderBuffer.cc) and the dispatch and  *)
(* issue units (src/lib/pipeline/DispatchIssueUnit.cc and                 *)
(* src/outoforder/DispatchIssueUnit.cc).                                  *)
(*                                                                         *)
(* Every unit is a record of its member fields; every member function is  *)
(* an operator from a "world" (the records a call can touch) to the world *)
(* after the call, so that a handler that calls into another unit is one  *)
(* step.  Each subsystem has its own specification over the same          *)
(* variables: SpecMMU, SpecLSQ, SpecROB, SpecSplit, SpecBuffer, SpecDIU,   *)
(* SpecCore, SpecFlush, SpecStore, SpecSend, SpecOoO, SpecCond and         *)
(* SpecPending.                                                            *)
(***************************************************************************)
EXTENDS Integers, Sequences, FiniteSets, Bags, TLC

(***************************************************************************)
(* Bounds of the model.                                                    *)
(***************************************************************************)
\* Highest virtual address a memory target may start at.
MaxAddr == 1
\* Largest size of a memory target, in bytes.
MaxSize == 2
\* Number of instructions the MMU driver offers to the MMU.
MaxMMUReqs == 2
\* Number of cycles of the MMU in which some translation is not answered OK.
MaxFaultCalls == 1
\* Number of loads and stores the pipeline dispatches to the LSQ.
MaxLSQInsns == 3
\* Number of cycles of the in-order core.
MaxTicks == 3
\* Number of flushes the execution units ask for.
MaxEUFlushes == 1
\* Largest start address, size and cache line width of the targets split.
MaxSplitAddr == 3
MaxSplitSize == 4
MaxWidth == 3

\* Size of the first target of the load of two targets.
MaxPairSize == 2

\* Largest width of a pipeline buffer, largest value written to a slot (0 is
\* the empty value), and number of ticks of the buffer.
MaxBufferWidth == 2
MaxBufferValue == 2
MaxBufferTicks == 3

\* Uops handed to the dispatch/issue unit, ticks of the unit, and flushes.
MaxDIUInsns == 3

MaxDIUTicks == 4

MaxDIUFlushes == 1

\* The core under an operating system: instructions fetched, ticks of the
\* core, calls of interrupt() and of schedule().
MaxCoreInsns == 3
MaxCoreTicks == 7
MaxInterrupts == 2
MaxSchedules == 1

\* The flushes of the core: the instructions fetched, the execution units
\* and the cycles.
MaxFlushInsns == 4
MaxFlushUnits == 2
MaxFlushTicks == 4

\* Number of stores offered to the MMU that serves plain and conditional
\* stores.
MaxStores == 2

\* The requests the LSQ sends to the MMU: the instructions dispatched, the
\* ticks of the LSQ and the largest LSQ latency of a load.
MaxSendInsns == 3
MaxSendTicks == 4
MaxLatency == 2

\* The out-of-order dispatch/issue unit sees at most this many uops, ticks
\* and flushes, and its reservation station holds this many uops.
MaxOoOInsns == 3

MaxOoOTicks == 4

MaxOoOFlushes == 1

MaxStation == 2

\* The LSQ sees at most this many stores, conditional or plain, and ticks
\* this often.
MaxCondStores == 2

MaxCondTicks == 4

\* Number of untimed writes of state changes.
MaxUntimedWrites == 1

\* Number of instructions renamed into the reorder buffer.
MaxROBInsns == 3
\* Largest maxCommitSize handed to ReorderBuffer::commit.
MaxCommitSize == 2
\* Number of flushes of the reorder buffer asked by a mispredicted branch.
MaxROBFlushes == 1
\* Number of instructions that encounter an exception.
MaxROBExceptions == 1
\* Capacity of the reorder buffer.
ROBSize == 3
\* Architectural and physical registers of each type.
ArchCount == 1
PhysCount == 3

(***************************************************************************)
(* Program constants.                                                      *)
(***************************************************************************)
\* Modulus of the pendingDataRequests_ counter (an unsigned counter, kept
\* narrower than the program's 64 bits so that TLC can represent it).
CounterModulus == 65536

VARIABLES
  cfg,       \* MMU limits read from the configuration
  insn,      \* the instructions, by sequence id
  mmu,       \* the MMU's members
  port,      \* bag of packets sent to memory and not yet answered
  mem,       \* the memory behind the port, byte by byte
  issued,    \* bytes issued by the last MMU::tick, per type
  nextSeq,   \* next sequence id handed to an instruction
  faultCalls, \* calls so far in which a translation was not answered OK
  err,       \* an assertion of the program has failed
  lsq,       \* the load/store queue's members
  core,      \* the in-order core's members used by retirement and flushing
  pipe,      \* the pipeline around the LSQ: position in the cycle, slots
  rob,       \* the reorder buffer's members
  rat,       \* the register alias table
  diu,       \* the dispatch/issue unit's members
  hist       \* history of the run: what was observed at calls and commits

vars == <<cfg, insn, mmu, port, mem, issued, nextSeq, faultCalls, err,
          lsq, core, pipe, rob, rat, diu, hist>>

\* No dispatch/issue unit has been built.
NoDIU == <<>>

\* Memory-Hierarchy.Cache-Line-Width, read in the MMU constructor.
cacheLineWidth == cfg.cacheLineWidth

(***************************************************************************)
(* Generic helpers.                                                        *)
(***************************************************************************)
Min(a, b) == IF a <= b THEN a ELSE b

Range(f) == {f[x] : x \in DOMAIN f}

\* A sequence without its i-th element.
RemoveAt(s, i) == [j \in 1..(Len(s) - 1) |-> IF j < i THEN s[j] ELSE s[j + 1]]

\* A function with key k removed from its domain (std::map::erase).
MapErase(f, k) == [x \in (DOMAIN f) \ {k} |-> f[x]]

\* A function with key k set to v, added if absent (std::map::operator[]).
MapPut(f, k, v) == [x \in (DOMAIN f) \cup {k} |-> IF x = k THEN v ELSE f[x]]

EmptyMap == [x \in {} |-> 0]

\* F applied to the value of v, which is computed once: the steps of a
\* function body, each on the result of the one before.
With(v, F(_)) == CHOOSE r \in {F(x) : x \in {v}} : TRUE

(***************************************************************************)
(* Instructions.                                                           *)
(***************************************************************************)
Ids == 0..(MaxMMUReqs - 1)

\* The sequence ids of the instructions dispatched to the LSQ.
LSQIds == 0..(MaxLSQInsns - 1)

Targets == {[vaddr |-> a, size |-> s] : a \in 0..MaxAddr, s \in 1..MaxSize}

\* Marks a memory-data slot of an instruction that has not been supplied.
Unsupplied == <<-1>>

\* Value (bytes) a store writes: every byte carries the store's tag.
StoreBytes(id, size) == [i \in 1..size |-> id + 1]

NoInsn == [kind |-> "none"]

NewInsn(kind, tgts, generated) ==
  [kind |-> kind,
   tgts |-> tgts,
   addrs |-> IF generated THEN tgts ELSE <<>>,
   data |-> [i \in 1..Len(tgts) |-> Unsupplied],
   supplyCalls |-> 0,
   commitReady |-> FALSE,
   executed |-> FALSE,
   flushed |-> FALSE,
   exception |-> FALSE,
   storeCond |-> FALSE,
   condResultReady |-> FALSE,
   condResult |-> FALSE,
   lsqLatency |-> 1]

\* Instruction::hasAllData: every generated address has had data supplied.
hasAllData(i) == \A k \in 1..Len(i.data) : i.data[k] # Unsupplied

\* Instruction::supplyData(addr, value): fills the first unsupplied slot whose
\* address is addr.  supplyCalls counts the calls.
supplyData(i, addr, value) ==
  LET hits == {k \in 1..Len(i.addrs) : i.addrs[k].vaddr = addr /\ i.data[k] = Unsupplied}
  IN IF hits = {} THEN [i EXCEPT !.supplyCalls = @ + 1]
     ELSE LET k == CHOOSE x \in hits : \A y \in hits : x <= y
          IN [i EXCEPT !.data[k] = value, !.supplyCalls = @ + 1]

(***************************************************************************)
(* MemPacket and the splitting of a target on cache-line boundaries.      *)
(***************************************************************************)
downAlign(a, w) == a - (a % w)

isAligned(target) ==
  downAlign(target.vaddr, cacheLineWidth)
    = downAlign(target.vaddr + target.size - 1, cacheLineWidth)

createReadRequest(vaddr, size, seqId, pktOrderId) ==
  [type |-> "read", vaddr |-> vaddr, size |-> size, insnSeqId |-> seqId,
   packetOrderId |-> pktOrderId, packetSplitId |-> 0, payload |-> <<>>,
   faulty |-> FALSE, ignored |-> FALSE, failed |-> FALSE, untimed |-> FALSE]

createWriteRequest(vaddr, size, seqId, pktOrderId, payload) ==
  [type |-> "write", vaddr |-> vaddr, size |-> size, insnSeqId |-> seqId,
   packetOrderId |-> pktOrderId, packetSplitId |-> 0, payload |-> payload,
   faulty |-> FALSE, ignored |-> FALSE, failed |-> FALSE, untimed |-> FALSE]

\* A region that takes all that remains, whatever the cache line.
regionSizeToEnd(nextAddr, remSize) == remSize

\* Size of the next region of a split: up to the end of the cache line.
regionSize(nextAddr, remSize) ==
  Min((downAlign(nextAddr, cacheLineWidth) + cacheLineWidth) - nextAddr, remSize)

RECURSIVE splitRead(_, _, _, _, _)
splitRead(nextAddr, remSize, nextSplitId, seqId, pktOrderId) ==
  IF remSize = 0 THEN <<>>
  ELSE LET regSize == regionSize(nextAddr, remSize)
           req == [createReadRequest(nextAddr, regSize, seqId, pktOrderId)
                     EXCEPT !.packetSplitId = nextSplitId]
       IN <<req>> \o splitRead(nextAddr + regSize, remSize - regSize,
                               nextSplitId + 1, seqId, pktOrderId)

createReadMemPackets(target, seqId, pktOrderId) ==
  IF isAligned(target)
  THEN <<createReadRequest(target.vaddr, target.size, seqId, pktOrderId)>>
  ELSE splitRead(target.vaddr, target.size, 0, seqId, pktOrderId)

RECURSIVE splitWrite(_, _, _, _, _, _)
splitWrite(nextAddr, remSize, nextSplitId, remData, seqId, pktOrderId) ==
  IF remSize = 0 THEN <<>>
  ELSE LET regSize == regionSize(nextAddr, remSize)
           regData == SubSeq(remData, 1, regSize)
           req == [createWriteRequest(nextAddr, regSize, seqId, pktOrderId, regData)
                     EXCEPT !.packetSplitId = nextSplitId]
       IN <<req>> \o splitWrite(nextAddr + regSize, remSize - regSize,
                                nextSplitId + 1,
                                SubSeq(remData, regSize + 1, Len(remData)),
                                seqId, pktOrderId)

createWriteMemPackets(target, data, seqId, pktOrderId) ==
  IF isAligned(target)
  THEN <<createWriteRequest(target.vaddr, target.size, seqId, pktOrderId, data)>>
  ELSE splitWrite(target.vaddr, target.size, 0, data, seqId, pktOrderId)

(***************************************************************************)
(* MMU.  The record `mmu` holds the members:                               *)
(*   ld, str            loadsStores_[LD] and loadsStores_[STR]: one        *)
(*                      sequence of packets per pending instruction        *)
(*   requestedLoads     seqId -> totalPacketsRemaining                     *)
(*   requestedStores    seqId -> [remaining, failed]                       *)
(*   pendingDataRequests                                                   *)
(*   decrementedAtZero  (observation) pendingDataRequests_-- has been      *)
(*                      executed with the counter at zero                  *)
(*   pendingRequests    vaddr -> packets parked on a pending translation   *)
(*   readResponses      seqId -> pktOrderId -> sequence of packets         *)
(* A world `w` of the MMU is [mmu, insn, port, issued, err].               *)
(***************************************************************************)
NoPacket == [type |-> "none"]

FaultCodes == {"OK", "DATA_ABORT", "PENDING", "IGNORED"}

\* Translations are decided per page; a page holds two cache lines.
pageOf(vaddr) == vaddr \div (2 * cacheLineWidth)

\* The pages a packet may start in.
Pages == 0..pageOf(MaxAddr + MaxSize - 1)

\* translate_(vaddr, tid) under the page table xl.
translate(xl, vaddr) == xl[pageOf(vaddr)]

EmptyMMU ==
  [ld |-> <<>>, str |-> <<>>,
   requestedLoads |-> EmptyMap, requestedStores |-> EmptyMap,
   pendingDataRequests |-> 0,
   decrementedAtZero |-> FALSE,
   pendingRequests |-> EmptyMap,
   readResponses |-> EmptyMap]

\* Concatenation of the packets of all targets of an instruction.
RECURSIVE readPacketsFrom(_, _, _)
readPacketsFrom(targets, i, seqId) ==
  IF i > Len(targets) THEN <<>>
  ELSE createReadMemPackets(targets[i], seqId, i - 1)
         \o readPacketsFrom(targets, i + 1, seqId)

RECURSIVE writePacketsFrom(_, _, _, _)
writePacketsFrom(targets, data, i, seqId) ==
  IF i > Len(targets) THEN <<>>
  ELSE createWriteMemPackets(targets[i], SubSeq(data[i], 1, targets[i].size),
                             seqId, i - 1)
         \o writePacketsFrom(targets, data, i + 1, seqId)

\* readResponses_[seqId][pktOrderId].resize(number of splits), per target.
responseSlots(targets, seqId) ==
  [o \in 0..(Len(targets) - 1) |->
     [k \in 1..Len(createReadMemPackets(targets[o + 1], seqId, o)) |-> NoPacket]]

\* requestRead's admission without the test for exclusive access.
readAdmittedNoExclusive(m) ==
  /\ ~(~cfg.exclusiveRequests /\ Len(m.ld) + Len(m.str) >= cfg.requestLimit)
  /\ ~(Len(m.ld) >= cfg.loadRequestLimit)

\* requestRead's admission without the test of the load limit.
readAdmittedNoLoadLimit(m) ==
  /\ ~(cfg.exclusiveRequests /\ Len(m.str) # 0)
  /\ ~(~cfg.exclusiveRequests /\ Len(m.ld) + Len(m.str) >= cfg.requestLimit)

\* Admission of a load: the three early returns of requestRead.
readAdmitted(m) ==
  /\ ~(cfg.exclusiveRequests /\ Len(m.str) # 0)
  /\ ~(~cfg.exclusiveRequests /\ Len(m.ld) + Len(m.str) >= cfg.requestLimit)
  /\ ~(Len(m.ld) >= cfg.loadRequestLimit)

\* Admission of a store: the three early returns of requestWrite.
writeAdmitted(m) ==
  /\ ~(cfg.exclusiveRequests /\ Len(m.ld) # 0)
  /\ ~(~cfg.exclusiveRequests /\ Len(m.ld) + Len(m.str) >= cfg.requestLimit)
  /\ ~(Len(m.str) >= cfg.storeRequestLimit)

\* MMU::requestRead(uop): [ok, w].
requestRead(w, seqId) ==
  IF ~readAdmitted(w.mmu) THEN [ok |-> FALSE, w |-> w]
  ELSE LET targets == w.insn[seqId].addrs
           pkts == readPacketsFrom(targets, 1, seqId)
           m == w.mmu
       IN [ok |-> TRUE,
           w |-> [w EXCEPT !.mmu =
                    [m EXCEPT !.ld = Append(@, pkts),
                              !.readResponses =
                                 IF Len(targets) = 0 THEN @
                                 ELSE MapPut(@, seqId, responseSlots(targets, seqId)),
                              !.pendingDataRequests = (@ + Len(pkts)) % CounterModulus,
                              !.requestedLoads = MapPut(@, seqId, Len(pkts))]]]

\* MMU::requestWrite(uop, data): [ok, w].
requestWrite(w, seqId) ==
  IF ~writeAdmitted(w.mmu) THEN [ok |-> FALSE, w |-> w]
  ELSE LET targets == w.insn[seqId].addrs
           pkts == writePacketsFrom(targets, w.insn[seqId].data, 1, seqId)
           m == w.mmu
       IN [ok |-> TRUE,
           w |-> [w EXCEPT !.mmu =
                    [m EXCEPT !.str = Append(@, pkts),
                              !.pendingDataRequests = (@ + Len(pkts)) % CounterModulus,
                              !.requestedStores =
                                 MapPut(@, seqId, [remaining |-> Len(pkts),
                                                   failed |-> FALSE])]]]

\* The payloads of the splits joined from the last split to the first.
RECURSIVE mergeSplitsReversed(_, _)
mergeSplitsReversed(pktVec, j) ==
  IF j > Len(pktVec) THEN <<>>
  ELSE mergeSplitsReversed(pktVec, j + 1) \o pktVec[j].payload

\* Value reassembled for one target from its response packets, in split order
\* (the inner loop of supplyLoadInsnData): empty if any split is faulty.
RECURSIVE mergeSplits(_, _)
mergeSplits(pktVec, j) ==
  IF j > Len(pktVec) THEN <<>>
  ELSE pktVec[j].payload \o mergeSplits(pktVec, j + 1)

\* The payloads joined whether or not a split is faulty.
mergedValueIgnoringFaults(pktVec) == mergeSplits(pktVec, 1)

mergedValue(pktVec) ==
  IF \E j \in 1..Len(pktVec) : pktVec[j].faulty THEN <<>>
  ELSE mergeSplits(pktVec, 1)

RECURSIVE supplyOrders(_, _, _, _)
supplyOrders(i, packets, o, n) ==
  IF o >= n THEN i
  ELSE supplyOrders(supplyData(i, packets[o][1].vaddr, mergedValue(packets[o])),
                    packets, o + 1, n)

\* supplyLoadInsnData with the entry of readResponses_ left in place.
supplyLoadInsnDataKeepingResponses(w, seqId) ==
  LET packets == w.mmu.readResponses[seqId]
      supplied == supplyOrders(w.insn[seqId], packets, 0, Cardinality(DOMAIN packets))
  IN [w EXCEPT !.insn[seqId] = supplied,
               !.mmu.requestedLoads = MapErase(@, seqId)]

\* MMU::supplyLoadInsnData(insnSeqId).
supplyLoadInsnData(w, seqId) ==
  LET packets == w.mmu.readResponses[seqId]
      supplied == supplyOrders(w.insn[seqId], packets, 0, Cardinality(DOMAIN packets))
  IN [w EXCEPT !.insn[seqId] = supplied,
               !.err = @ \/ ~hasAllData(supplied),
               !.mmu.requestedLoads = MapErase(@, seqId),
               !.mmu.readResponses = MapErase(@, seqId)]

\* The receiver registered by MMU::initPort, for a data packet.
receive(w, pkt) ==
  LET seqId == pkt.insnSeqId
      w1 == [w EXCEPT !.mmu.pendingDataRequests = (@ - 1) % CounterModulus,
                      !.mmu.decrementedAtZero = @ \/ w.mmu.pendingDataRequests = 0]
  IN IF pkt.type = "read"
     THEN IF seqId \notin DOMAIN w1.mmu.requestedLoads
          THEN [w1 EXCEPT !.err = TRUE]
          ELSE LET w2 == [w1 EXCEPT
                            !.mmu.readResponses[seqId][pkt.packetOrderId][pkt.packetSplitId + 1] = pkt,
                            !.mmu.requestedLoads[seqId] = @ - 1]
               IN IF w2.mmu.requestedLoads[seqId] = 0
                  THEN supplyLoadInsnData(w2, seqId)
                  ELSE w2
     ELSE IF seqId \notin DOMAIN w1.mmu.requestedStores THEN w1
          ELSE LET str == w1.mmu.requestedStores[seqId]
                   str2 == [remaining |-> str.remaining - 1,
                            failed |-> str.failed \/ pkt.failed]
                   w2 == [w1 EXCEPT !.mmu.requestedStores[seqId] = str2]
               IN IF str2.remaining = 0
                  THEN [w2 EXCEPT !.insn[seqId].condResultReady = TRUE,
                                  !.insn[seqId].condResult = ~str2.failed]
                  ELSE w2

\* MMU::issueRequest(request) when translate_ answers from page table xl.
issueRequest(w, request, xl) ==
  LET faultCode == translate(xl, request.vaddr)
  IN CASE faultCode = "DATA_ABORT" ->
            receive(w, [request EXCEPT !.faulty = TRUE])
       [] faultCode = "PENDING" ->
            [w EXCEPT !.mmu.pendingRequests =
               MapPut(@, request.vaddr,
                      IF request.vaddr \in DOMAIN @
                      THEN Append(@[request.vaddr], request) ELSE <<request>>)]
       [] faultCode = "IGNORED" ->
            [w EXCEPT !.port = @ (+) SetToBag({[request EXCEPT !.ignored = TRUE]})]
       [] OTHER ->
            [w EXCEPT !.port = @ (+) SetToBag({request})]

\* The bandwidth test with the size of the packet left out.
withinBandwidthBeforePacket(bandwidthUsed, size, bandwidthLimit) ==
  bandwidthUsed <= bandwidthLimit

\* The bandwidth test of processRequests.
withinBandwidth(bandwidthUsed, size, bandwidthLimit) ==
  (bandwidthUsed + size) <= bandwidthLimit

\* The last packet of a store marking it ready to commit whether or not it
\* is conditional.
storeLastPacketAlsoConditional(w, pkt) ==
  IF pkt.insnSeqId \notin DOMAIN w.mmu.requestedStores
  THEN [w EXCEPT !.err = TRUE]
  ELSE [w EXCEPT !.insn[pkt.insnSeqId].commitReady = TRUE,
                 !.mmu.requestedStores = MapErase(@, pkt.insnSeqId)]

\* The last packet of a non-conditional store marks it ready to commit and
\* forgets it in requestedStores_.
storeLastPacket(w, pkt) ==
  IF pkt.insnSeqId \notin DOMAIN w.mmu.requestedStores
  THEN [w EXCEPT !.err = TRUE]
  ELSE IF ~w.insn[pkt.insnSeqId].storeCond
       THEN [w EXCEPT !.insn[pkt.insnSeqId].commitReady = TRUE,
                      !.mmu.requestedStores = MapErase(@, pkt.insnSeqId)]
       ELSE w

\* MMU::processRequests(isStore), with bandwidthUsed bytes already issued.
RECURSIVE processRequests(_, _, _, _)
processRequests(w, isStore, bandwidthUsed, xl) ==
  LET queue == IF isStore THEN w.mmu.str ELSE w.mmu.ld
      bandwidthLimit == IF isStore THEN cfg.storeBandwidth ELSE cfg.loadBandwidth
      setQueue(x, q) == IF isStore THEN [x EXCEPT !.mmu.str = q]
                                   ELSE [x EXCEPT !.mmu.ld = q]
  IN IF Len(queue) = 0 THEN w
     ELSE IF Len(queue[1]) = 0
          THEN processRequests(setQueue(w, Tail(queue)), isStore, bandwidthUsed, xl)
          ELSE LET pkt == queue[1][1]
               IN IF withinBandwidth(bandwidthUsed, pkt.size, bandwidthLimit)
                  THEN LET w1 == IF isStore /\ Len(queue[1]) = 1
                                 THEN storeLastPacket(w, pkt) ELSE w
                           w2 == issueRequest(w1, pkt, xl)
                           w3 == setQueue(w2, <<Tail(queue[1])>> \o Tail(queue))
                           w4 == [w3 EXCEPT !.issued[IF isStore THEN "STR" ELSE "LD"] =
                                               @ + pkt.size]
                       IN processRequests(w4, isStore, bandwidthUsed + pkt.size, xl)
                  ELSE w

\* MMU::tick().
mmuTick(w, xl) ==
  LET w0 == [w EXCEPT !.issued = [LD |-> 0, STR |-> 0]]
  IN IF cfg.exclusiveRequests
     THEN processRequests(w0, Len(w0.mmu.str) # 0, 0, xl)
     ELSE processRequests(processRequests(w0, TRUE, 0, xl), FALSE, 0, xl)

\* MMU::supplyDelayedTranslation(vaddr, paddr).
RECURSIVE reissue(_, _, _, _)
reissue(w, pkts, i, xl) ==
  IF i > Len(pkts) THEN w
  ELSE reissue(issueRequest(w, pkts[i], xl), pkts, i + 1, xl)

\* supplyDelayedTranslation with the entry of pendingRequests_ left in place.
supplyDelayedTranslationKeepingEntry(w, vaddr, xl) ==
  IF vaddr \in DOMAIN w.mmu.pendingRequests
  THEN reissue(w, w.mmu.pendingRequests[vaddr], 1, xl)
  ELSE w

supplyDelayedTranslation(w, vaddr, xl) ==
  IF vaddr \in DOMAIN w.mmu.pendingRequests
  THEN LET parked == w.mmu.pendingRequests[vaddr]
           w1 == reissue(w, parked, 1, xl)
       IN [w1 EXCEPT !.mmu.pendingRequests = MapErase(@, vaddr)]
  ELSE w

\* MMU::requestWrite(target, data): the write of a state change, issued at
\* once and outside the vectors of pending instructions.
requestWriteTarget(w, target, data, xl) ==
  LET pktVec == createWriteMemPackets(target, SubSeq(data, 1, target.size), 0, 0)
  IN [reissue(w, pktVec, 1, xl) EXCEPT
        !.mmu.pendingDataRequests = (@ + Len(pktVec)) % CounterModulus]

\* MMU::hasPendingRequests().
hasPendingRequests(m) == m.pendingDataRequests # 0

(***************************************************************************)
(* The memory behind the port (an external collaborator): it performs the  *)
(* access of a packet and turns the request into a response.               *)
(***************************************************************************)
MemAddrs == 0..(MaxAddr + MaxSize - 1)

memWrite(m, pkt) ==
  IF pkt.type = "write" /\ ~pkt.ignored
  THEN [a \in DOMAIN m |->
          IF a >= pkt.vaddr /\ a < pkt.vaddr + pkt.size
          THEN pkt.payload[a - pkt.vaddr + 1] ELSE m[a]]
  ELSE m

memResponse(m, pkt) ==
  IF pkt.type = "read" /\ ~pkt.ignored
  THEN [pkt EXCEPT !.payload = [i \in 1..pkt.size |-> m[pkt.vaddr + i - 1]]]
  ELSE pkt

(***************************************************************************)
(* The load/store queue.  Its members:                                     *)
(*   completionOrder     "INORDER" or "OUTOFORDER", fixed at construction  *)
(*   loadQueue           sequence ids of the loads, in program order       *)
(*   storeQueue          [id, data] of the stores, in program order        *)
(*   requestedLoads      ids of the loads that have requested memory       *)
(*   conflictionMap      store id -> loads delayed until the store commits *)
(*   requestLoadQueue    cycle -> loads to send to the MMU in that cycle   *)
(*   requestStoreQueue   cycle -> stores to send to the MMU in that cycle  *)
(*   completedRequests   queue of instructions to hand to writeback        *)
(*   requestedCondStore  the conditional store in flight, or NoId          *)
(*   violatingLoad       the load found by the last commitStore, or NoId   *)
(*   tickCounter         cycles seen by tick                               *)
(* A world `w` of the LSQ is a world of the MMU with the fields lsq and    *)
(* slots, the instructions written to the tail of the completion slots.    *)
(***************************************************************************)
NoId == -1

\* Instruction::getLSQLatency(): cycles between a request entering the LSQ
\* and being sent to the MMU.
getLSQLatency(i) == i.lsqLatency

\* Instruction::execute() of a load once its data has been supplied, and of
\* a store: a load that was supplied no bytes for some address has taken a
\* data abort.
execute(i) ==
  [i EXCEPT !.executed = TRUE,
            !.exception = @ \/ (i.kind = "load" /\ \E k \in 1..Len(i.data) : i.data[k] = <<>>)]

EmptyLSQ(order) ==
  [completionOrder |-> order,
   loadQueue |-> <<>>, storeQueue |-> <<>>,
   requestedLoads |-> {},
   conflictionMap |-> EmptyMap,
   requestLoadQueue |-> EmptyMap, requestStoreQueue |-> EmptyMap,
   completedRequests |-> <<>>,
   requestedCondStore |-> NoId,
   violatingLoad |-> NoId,
   tickCounter |-> 0]

\* An overlap test that only sees requests starting at the same address.
requestsOverlapSameStart(a, b) == a.vaddr = b.vaddr

\* requestsOverlap(a, b).
requestsOverlap(a, b) ==
  ~(a.vaddr + a.size <= b.vaddr \/ b.vaddr + b.size <= a.vaddr)

\* The nested loops over two address lists: some pair of requests overlaps.
anyOverlap(as, bs) ==
  \E i \in 1..Len(as), j \in 1..Len(bs) : requestsOverlap(as[i], bs[j])

\* std::map<cycle, vector>::operator[](k).push_back(x).
pushAt(f, k, x) == MapPut(f, k, IF k \in DOMAIN f THEN Append(f[k], x) ELSE <<x>>)

\* LoadStoreQueue::addLoad(insn) and addStore(insn).
addLoad(w, id) == [w EXCEPT !.lsq.loadQueue = Append(@, id)]

addStore(w, id) == [w EXCEPT !.lsq.storeQueue = Append(@, [id |-> id, data |-> <<>>])]

\* The scan of startLoad with the age test the wrong way round: it looks at
\* the stores younger than the load.
conflictingStoreYounger(w, id) ==
  LET q == w.lsq.storeQueue
      hits == {k \in 1..Len(q) :
                 /\ q[k].id > id
                 /\ anyOverlap(w.insn[q[k].id].addrs, w.insn[id].addrs)}
  IN IF hits = {} THEN 0 ELSE CHOOSE k \in hits : \A j \in hits : j <= k

\* The store startLoad delays the load on: scanning the store queue from its
\* back, the first store older than the load one of whose generated addresses
\* overlaps one of the load's; 0 if there is none.
conflictingStore(w, id) ==
  LET q == w.lsq.storeQueue
      hits == {k \in 1..Len(q) :
                 /\ q[k].id < id
                 /\ anyOverlap(w.insn[q[k].id].addrs, w.insn[id].addrs)}
  IN IF hits = {} THEN 0 ELSE CHOOSE k \in hits : \A j \in hits : j <= k

\* LoadStoreQueue::startLoad(insn).
startLoad(w, id) ==
  IF Len(w.insn[id].addrs) = 0
  THEN [w EXCEPT !.insn[id] = execute(@),
                 !.lsq.completedRequests = Append(@, id)]
  ELSE With(IF w.lsq.completionOrder = "INORDER"
            THEN [w EXCEPT !.lsq.completedRequests = Append(@, id)]
            ELSE w, LAMBDA w1 :
       With(conflictingStore(w1, id), LAMBDA k :
         IF k # 0
         THEN [w1 EXCEPT !.lsq.conflictionMap =
                           pushAt(@, w1.lsq.storeQueue[k].id, id)]
         ELSE [w1 EXCEPT !.lsq.requestLoadQueue =
                           pushAt(@, w1.lsq.tickCounter + getLSQLatency(w1.insn[id]), id),
                         !.lsq.requestedLoads = @ \cup {id}]))

\* LoadStoreQueue::supplyStoreData(insn): the data of the store goes to the
\* first entry of the store queue made for it.
supplyStoreData(w, id) ==
  LET q == w.lsq.storeQueue
      hits == {k \in 1..Len(q) : q[k].id = id}
  IN IF w.insn[id].kind # "store" \/ hits = {} THEN w
     ELSE LET k == CHOOSE x \in hits : \A y \in hits : x <= y
          IN [w EXCEPT !.lsq.storeQueue[k].data = w.insn[id].data]


\* The loop of startStore that supplies the queued data to the instruction.
RECURSIVE supplyStoreQueueData(_, _, _, _)
supplyStoreQueueData(i, addresses, data, k) ==
  IF k > Len(data) \/ k > Len(addresses) THEN i
  ELSE supplyStoreQueueData(supplyData(i, addresses[k].vaddr, data[k]),
                            addresses, data, k + 1)

\* LoadStoreQueue::startStore(uop).
startStore(w, id) ==
  LET addresses == w.insn[id].addrs
  IN IF Len(w.lsq.storeQueue) = 0 THEN [w EXCEPT !.err = TRUE]
     ELSE IF Len(addresses) = 0 THEN w
     ELSE LET data == w.lsq.storeQueue[1].data
          IN With(supplyStoreQueueData([w.insn[id] EXCEPT !.commitReady = FALSE],
                                       addresses, data, 1), LAMBDA uop :
             With([w EXCEPT !.insn[id] = uop,
                            !.err = @ \/ Len(addresses) # Len(data),
                            !.lsq.requestStoreQueue = pushAt(@, w.lsq.tickCounter, id)],
                  LAMBDA w1 :
               IF uop.storeCond /\ ~uop.condResultReady
               THEN [w1 EXCEPT !.err = @ \/ w.lsq.requestedCondStore # NoId,
                               !.lsq.requestedCondStore = id,
                               !.lsq.completedRequests =
                                  IF w.lsq.completionOrder = "INORDER"
                                  THEN Append(@, id) ELSE @]
               ELSE w1))

\* The body of the loop without the skip of the loads younger than
\* violatingLoad_.
visitLoadWithoutSkip(w, id, load, violating) ==
  IF load # id /\ anyOverlap(w.insn[id].addrs, w.insn[load].addrs)
  THEN load ELSE violating

\* The body of the loop of commitStore over requestedLoads_ for one load:
\* violatingLoad_ afterwards, `violating` being violatingLoad_ before.
visitLoad(w, id, load, violating) ==
  IF violating # NoId /\ load > violating THEN violating
  ELSE IF load # id /\ anyOverlap(w.insn[id].addrs, w.insn[load].addrs)
       THEN load ELSE violating

\* The loop of commitStore over requestedLoads_, in ascending order of the
\* keys: `violating` is violatingLoad_ so far, `rest` the loads still to
\* visit.
RECURSIVE scanRequestedLoads(_, _, _, _)
scanRequestedLoads(w, id, rest, violating) ==
  IF rest = {} THEN violating
  ELSE With(CHOOSE x \in rest : \A y \in rest : x <= y, LAMBDA load :
       With(rest \ {load}, LAMBDA others :
         scanRequestedLoads(w, id, others, visitLoad(w, id, load, violating))))

\* The same loop visiting the loads in the order of sequence `order`, from
\* its k-th element on.
RECURSIVE scanInOrder(_, _, _, _, _)
scanInOrder(w, id, order, k, violating) ==
  IF k > Len(order) THEN violating
  ELSE scanInOrder(w, id, order, k + 1, visitLoad(w, id, order[k], violating))

\* The release of the delayed loads with no latency added.
releaseLoadsAtOnce(w, ldVec, k) ==
  [w EXCEPT !.lsq.requestLoadQueue =
              MapPut(@, w.lsq.tickCounter,
                     (IF w.lsq.tickCounter \in DOMAIN @ THEN @[w.lsq.tickCounter] ELSE <<>>)
                       \o ldVec),
            !.lsq.requestedLoads = @ \cup Range(ldVec)]

\* The loop of commitStore that releases the loads delayed on the store.
RECURSIVE releaseLoads(_, _, _)
releaseLoads(w, ldVec, k) ==
  IF k > Len(ldVec) THEN w
  ELSE With([w EXCEPT !.lsq.requestLoadQueue =
                        pushAt(@, w.lsq.tickCounter + 1 + getLSQLatency(w.insn[ldVec[k]]),
                               ldVec[k]),
                      !.lsq.requestedLoads = @ \cup {ldVec[k]}], LAMBDA w1 :
         releaseLoads(w1, ldVec, k + 1))

\* LoadStoreQueue::commitStore(uop): [ret, w].
commitStore(w, id) ==
  IF Len(w.lsq.storeQueue) = 0 \/ w.lsq.storeQueue[1].id # id
  THEN [ret |-> FALSE, w |-> [w EXCEPT !.err = TRUE]]
  ELSE IF Len(w.insn[id].addrs) = 0
  THEN [ret |-> FALSE, w |-> [w EXCEPT !.lsq.storeQueue = Tail(@)]]
  ELSE With(scanRequestedLoads(w, id, w.lsq.requestedLoads, NoId), LAMBDA violating :
       With([w EXCEPT !.lsq.violatingLoad = violating], LAMBDA w1 :
       With(IF id \in DOMAIN w1.lsq.conflictionMap
            THEN [releaseLoads(w1, w1.lsq.conflictionMap[id], 1)
                    EXCEPT !.lsq.conflictionMap = MapErase(@, id)]
            ELSE w1, LAMBDA w2 :
         [ret |-> violating # NoId,
          w |-> [w2 EXCEPT !.lsq.storeQueue = Tail(@)]])))

\* LoadStoreQueue::commitLoad(uop): the first load of the load queue leaves
\* it and requestedLoads_.
commitLoad(w, id) ==
  IF Len(w.lsq.loadQueue) = 0 THEN [w EXCEPT !.err = TRUE]
  ELSE [w EXCEPT !.err = @ \/ w.lsq.loadQueue[1] # id,
                 !.lsq.requestedLoads = @ \ {w.lsq.loadQueue[1]},
                 !.lsq.loadQueue = Tail(@)]

\* A sequence without the flushed instructions.
RECURSIVE withoutFlushed(_, _)
withoutFlushed(w, ids) ==
  IF Len(ids) = 0 THEN <<>>
  ELSE (IF w.insn[ids[1]].flushed THEN <<>> ELSE <<ids[1]>>)
         \o withoutFlushed(w, Tail(ids))

RECURSIVE storesWithoutFlushed(_, _)
storesWithoutFlushed(w, q) ==
  IF Len(q) = 0 THEN <<>>
  ELSE (IF w.insn[q[1].id].flushed THEN <<>> ELSE <<q[1]>>)
         \o storesWithoutFlushed(w, Tail(q))

\* A purge that leaves conflictionMap_ as it is.
purgeFlushedKeepingConflicts(w) ==
  LET l == w.lsq
      flushedLoads == {l.loadQueue[k] : k \in {j \in 1..Len(l.loadQueue) :
                                                 w.insn[l.loadQueue[j]].flushed}}
      keptCycles == {c \in DOMAIN l.requestLoadQueue :
                       Len(withoutFlushed(w, l.requestLoadQueue[c])) # 0}
  IN [w EXCEPT !.lsq =
        [l EXCEPT !.requestedLoads = @ \ flushedLoads,
                  !.loadQueue = withoutFlushed(w, @),
                  !.storeQueue = storesWithoutFlushed(w, @),
                  !.requestLoadQueue =
                     [c \in keptCycles |-> withoutFlushed(w, l.requestLoadQueue[c])]]]

\* LoadStoreQueue::purgeFlushed().
purgeFlushed(w) ==
  LET l == w.lsq
      flushedLoads == {l.loadQueue[k] : k \in {j \in 1..Len(l.loadQueue) :
                                                 w.insn[l.loadQueue[j]].flushed}}
      flushedStores == {l.storeQueue[k].id : k \in {j \in 1..Len(l.storeQueue) :
                                                      w.insn[l.storeQueue[j].id].flushed}}
      keptConflicts == (DOMAIN l.conflictionMap) \ flushedStores
      keptCycles == {c \in DOMAIN l.requestLoadQueue :
                       Len(withoutFlushed(w, l.requestLoadQueue[c])) # 0}
  IN [w EXCEPT !.lsq =
        [l EXCEPT !.requestedLoads = @ \ flushedLoads,
                  !.loadQueue = withoutFlushed(w, @),
                  !.storeQueue = storesWithoutFlushed(w, @),
                  !.conflictionMap =
                     [s \in keptConflicts |-> withoutFlushed(w, l.conflictionMap[s])],
                  !.requestLoadQueue =
                     [c \in keptCycles |-> withoutFlushed(w, l.requestLoadQueue[c])]]]


\* Pipeline-Widths.LSQ-Completion: the completion slots given to the LSQ.
lsqCompletionSlots == 1

\* The inner loop of tick over the instructions of one cycle's vector: they
\* are offered to the MMU in order until one is refused.  [w, rest].
RECURSIVE sendVector(_, _, _)
sendVector(w, isStore, vec) ==
  IF Len(vec) = 0 THEN [w |-> w, rest |-> vec]
  ELSE With(IF isStore THEN requestWrite(w, vec[1]) ELSE requestRead(w, vec[1]),
            LAMBDA r :
         IF r.ok THEN With(Tail(vec), LAMBDA others : sendVector(r.w, isStore, others))
         ELSE [w |-> w, rest |-> vec])

\* The first loop of tick ending at the first request the MMU refuses,
\* whatever its type.
RECURSIVE sendRequestsUntilRefused(_, _, _)
sendRequestsUntilRefused(w, exceededLoad, exceededStore) ==
  LET lq == w.lsq.requestLoadQueue
      sq == w.lsq.requestStoreQueue
      hasLoad == DOMAIN lq # {}
      hasStore == DOMAIN sq # {}
      firstLoad == CHOOSE c \in DOMAIN lq : \A d \in DOMAIN lq : c <= d
      firstStore == CHOOSE c \in DOMAIN sq : \A d \in DOMAIN sq : c <= d
      chooseLoad == hasLoad /\ ~(hasStore /\ firstLoad >= firstStore)
      cycle == IF chooseLoad THEN firstLoad ELSE firstStore
  IN IF exceededLoad \/ exceededStore THEN w
     ELSE IF ~hasLoad /\ ~hasStore THEN w
     ELSE IF cycle > w.lsq.tickCounter THEN w
     ELSE With(chooseLoad, LAMBDA isLoad :
          With(cycle, LAMBDA c :
          With(sendVector(w, ~isLoad, IF isLoad THEN lq[c] ELSE sq[c]), LAMBDA r :
          With(Len(r.rest) # 0, LAMBDA refused :
          With(IF isLoad
               THEN [r.w EXCEPT !.lsq.requestLoadQueue =
                       IF refused THEN MapPut(@, c, r.rest) ELSE MapErase(@, c)]
               ELSE [r.w EXCEPT !.lsq.requestStoreQueue =
                       IF refused THEN MapPut(@, c, r.rest) ELSE MapErase(@, c)],
               LAMBDA w1 :
            sendRequestsUntilRefused(w1, isLoad /\ refused, ~isLoad /\ refused))))))

\* The first loop of tick: the due requests go to the MMU, the earliest
\* cycle first and a store before a load of the same cycle, until the MMU
\* has refused one request of each type.
RECURSIVE sendRequests(_, _, _)
sendRequests(w, exceededLoad, exceededStore) ==
  LET lq == w.lsq.requestLoadQueue
      sq == w.lsq.requestStoreQueue
      hasLoad == DOMAIN lq # {} /\ ~exceededLoad
      hasStore == DOMAIN sq # {} /\ ~exceededStore
      firstLoad == CHOOSE c \in DOMAIN lq : \A d \in DOMAIN lq : c <= d
      firstStore == CHOOSE c \in DOMAIN sq : \A d \in DOMAIN sq : c <= d
      chooseLoad == hasLoad /\ ~(hasStore /\ firstLoad >= firstStore)
      cycle == IF chooseLoad THEN firstLoad ELSE firstStore
  IN IF ~hasLoad /\ ~hasStore THEN w
     ELSE IF cycle > w.lsq.tickCounter THEN w
     ELSE With(chooseLoad, LAMBDA isLoad :
          With(cycle, LAMBDA c :
          With(sendVector(w, ~isLoad, IF isLoad THEN lq[c] ELSE sq[c]), LAMBDA r :
          With(Len(r.rest) # 0, LAMBDA refused :
          With(IF isLoad
               THEN [r.w EXCEPT !.lsq.requestLoadQueue =
                       IF refused THEN MapPut(@, c, r.rest) ELSE MapErase(@, c)]
               ELSE [r.w EXCEPT !.lsq.requestStoreQueue =
                       IF refused THEN MapPut(@, c, r.rest) ELSE MapErase(@, c)],
               LAMBDA w1 :
          With(exceededLoad \/ (isLoad /\ refused), LAMBDA exLoad :
          With(exceededStore \/ (~isLoad /\ refused), LAMBDA exStore :
            sendRequests(w1, exLoad, exStore))))))))

\* The loop of tick over requestedLoads_: a load whose data has all arrived
\* executes, and completes here when completion is out of order.
RECURSIVE executeLoads(_, _)
executeLoads(w, rest) ==
  IF rest = {} THEN w
  ELSE With(CHOOSE x \in rest : \A y \in rest : x <= y, LAMBDA load :
       With(IF hasAllData(w.insn[load]) /\ ~w.insn[load].executed
            THEN [w EXCEPT !.insn[load] = execute(@),
                           !.lsq.completedRequests =
                              IF w.lsq.completionOrder = "OUTOFORDER"
                              THEN Append(@, load) ELSE @]
            ELSE w, LAMBDA w1 :
       With(rest \ {load}, LAMBDA others : executeLoads(w1, others))))

\* A drain that passes over a load that has not executed and completes the
\* first entry behind it that can complete.
RECURSIVE drainCompletedPastBlocked(_, _)
drainCompletedPastBlocked(w, count) ==
  LET q == w.lsq.completedRequests
      able == {k \in 1..Len(q) :
                 /\ ~w.insn[q[k]].flushed
                 /\ ~(w.insn[q[k]].kind = "load" /\ ~w.insn[q[k]].executed)
                 /\ ~(w.insn[q[k]].storeCond /\ ~w.insn[q[k]].condResultReady)}
  IN IF able = {} \/ count >= lsqCompletionSlots THEN w
     ELSE With(CHOOSE k \in able : \A j \in able : k <= j, LAMBDA k :
          With([w EXCEPT !.slots = @ \cup {q[k]},
                         !.lsq.completedRequests = RemoveAt(@, k)], LAMBDA w1 :
            drainCompletedPastBlocked(w1, count + 1)))

\* The last loop of tick: completedRequests_ drains into the completion
\* slots, `count` of which have been written.
RECURSIVE drainCompleted(_, _)
drainCompleted(w, count) ==
  IF Len(w.lsq.completedRequests) = 0 \/ count >= lsqCompletionSlots THEN w
  ELSE LET id == w.lsq.completedRequests[1]
               i == w.insn[id]
       IN IF i.flushed
          THEN With([w EXCEPT !.lsq.completedRequests = Tail(@)], LAMBDA w1 :
                 drainCompleted(w1, count))
          ELSE IF i.kind = "load" /\ ~i.executed THEN w
          ELSE IF i.storeCond /\ ~i.condResultReady THEN w
          ELSE With([w EXCEPT !.slots = @ \cup {id},
                              !.lsq.completedRequests = Tail(@)], LAMBDA w1 :
                 drainCompleted(w1, count + 1))

\* LoadStoreQueue::tick().
lsqTick(w) ==
  With([w EXCEPT !.lsq.tickCounter = @ + 1], LAMBDA w0 :
  With(sendRequests(w0, FALSE, FALSE), LAMBDA w1 :
  With(w1.lsq.requestedCondStore, LAMBDA cond :
  With(IF /\ w1.lsq.completionOrder = "OUTOFORDER"
          /\ cond # NoId
          /\ w1.insn[cond].condResultReady
       THEN [w1 EXCEPT !.lsq.completedRequests = Append(@, cond),
                       !.lsq.requestedCondStore = NoId]
       ELSE w1, LAMBDA w2 :
  With(executeLoads(w2, w2.lsq.requestedLoads), LAMBDA w3 :
    drainCompleted(w3, 0))))))

(***************************************************************************)
(* The in-order core: retirement, the end of its cycle and flushing.  Its  *)
(* members:                                                                *)
(*   activeStore, loadViolation   the flags of the store being committed   *)
(*   loadViolations, flushes      statistics                               *)
(*   completedStoreAddrUops       store address uops retired, in order     *)
(*   exceptionGenerated, exceptionGeneratingInstruction, exceptionRegistered *)
(*   retired                      staging_: the sequence ids retired       *)
(*   fetchToDecodeBuffer          the instructions fetched and not decoded  *)
(*   pc, flushAfter               fetch address and point of the last flush *)
(* A world of the core is a world of the LSQ with the fields core and      *)
(* heads, the instructions at the head of the completion slots.            *)
(***************************************************************************)
NoFlush == -2

\* Instruction::getInstructionAddress().
getInstructionAddress(id) == 4 * id

EmptyCore ==
  [activeStore |-> FALSE, loadViolation |-> FALSE,
   loadViolations |-> 0, flushes |-> 0,
   completedStoreAddrUops |-> <<>>,
   exceptionGenerated |-> FALSE, exceptionGeneratingInstruction |-> NoId,
   exceptionRegistered |-> FALSE,
   retired |-> {},
   fetchToDecodeBuffer |-> {},
   pc |-> 0, flushAfter |-> NoFlush]

\* raiseException keeping the instruction raised last.
raiseExceptionKeepingLast(w, id) ==
  [w EXCEPT !.core.exceptionGenerated = TRUE,
            !.core.exceptionGeneratingInstruction = id]

\* Core::raiseException(insn).
raiseException(w, id) ==
  IF w.core.exceptionGenerated /\ w.core.exceptionGeneratingInstruction < id
  THEN w
  ELSE [w EXCEPT !.core.exceptionGenerated = TRUE,
                 !.core.exceptionGeneratingInstruction = id]

\* staging_.recordRetired(seqId).
recordRetired(w, id) == [w EXCEPT !.core.retired = @ \cup {id}]

\* Core::retireInstruction(insn).  A store is one uop that is both the
\* store address and the store data operation.
retireInstruction(w, id) ==
  IF w.insn[id].exception
  THEN recordRetired(raiseException(w, id), id)
  ELSE With(IF w.insn[id].kind = "load" THEN commitLoad(w, id) ELSE w, LAMBDA w1 :
       With(IF w1.insn[id].kind = "store"
            THEN [w1 EXCEPT !.core.completedStoreAddrUops = Append(@, id)]
            ELSE w1, LAMBDA w2 :
       With(IF w2.insn[id].kind = "store"
            THEN With(w2.core.completedStoreAddrUops[1], LAMBDA front :
                 With([w2 EXCEPT !.err = @ \/ front # id], LAMBDA checked :
                 With(startStore(checked, front), LAMBDA started :
                 With(commitStore(started, front).w, LAMBDA committed :
                   [committed EXCEPT !.core.completedStoreAddrUops = Tail(@)]))))
            ELSE w2, LAMBDA w3 :
         recordRetired(w3, id))))

\* The instructions in flight: handed a sequence id and not yet retired.
inFlight(w) == {id \in DOMAIN w.insn : w.insn[id].kind # "none"} \ w.core.retired

\* issueUnit_.flush(lowestInsnId), staging_.flush(lowestInsnId) and the
\* purges of the execution units: every instruction in flight that is
\* younger than lowestInsnId is marked flushed.
markFlushed(w, lowestInsnId) ==
  [w EXCEPT !.insn = [id \in DOMAIN @ |->
                        IF id \in inFlight(w) /\ id > lowestInsnId
                        THEN [@[id] EXCEPT !.flushed = TRUE] ELSE @[id]]]

\* What a unit answers to shouldFlush(), getFlushInsnId() and
\* getFlushAddress() at the end of a cycle.
NoRequest == [shouldFlush |-> FALSE, insnId |-> 0, address |-> 0]

FlushRequest(id, address) == [shouldFlush |-> TRUE, insnId |-> id, address |-> address]

\* The request of the one execution unit of a core whose branches all fall
\* through to the next instruction.
fallThrough(euFlush) ==
  IF euFlush = NoFlush THEN NoRequest
  ELSE FlushRequest(euFlush, getInstructionAddress(euFlush + 1))

\* The loop with the first execution unit that asks for a flush winning.
RECURSIVE firstRequest(_, _, _)
firstRequest(eus, k, found) ==
  IF k > Len(eus) THEN found
  ELSE firstRequest(eus, k + 1,
                    IF eus[k].shouldFlush /\ ~found.shouldFlush
                    THEN FlushRequest(eus[k].insnId, eus[k].address)
                    ELSE found)

\* The loop of Core::flushIfNeeded() over executionUnits_, from unit k on:
\* found holds shouldFlush, lowestInsnId and targetAddress.
RECURSIVE oldestRequest(_, _, _)
oldestRequest(eus, k, found) ==
  IF k > Len(eus) THEN found
  ELSE oldestRequest(eus, k + 1,
                     IF eus[k].shouldFlush
                        /\ (~found.shouldFlush \/ eus[k].insnId < found.insnId)
                     THEN FlushRequest(eus[k].insnId, eus[k].address)
                     ELSE found)

\* The load violation of Core::flushIfNeeded(): the flush starts from the
\* violating load iff it is older than the flush of the execution units.
violationRequest(w, found) ==
  With(w.lsq.violatingLoad, LAMBDA load :
    IF w.core.loadViolation /\ (~found.shouldFlush \/ (load - 1) < found.insnId)
    THEN FlushRequest(load - 1, getInstructionAddress(load))
    ELSE found)

\* Core::flushIfNeeded(), given the answers of the units: requests.eus
\* holds those of the execution units, requests.decode that of the decode
\* unit.  The instructions dropped from the fetch-to-decode buffer are
\* marked flushed.
flushIfNeeded(w, requests) ==
  With(IF w.core.loadViolation
       THEN [w EXCEPT !.core.loadViolations = @ + 1] ELSE w, LAMBDA w1 :
  With(violationRequest(w1, oldestRequest(requests.eus, 1, NoRequest)), LAMBDA found :
    IF found.shouldFlush
    THEN With(markFlushed(w1, found.insnId), LAMBDA marked :
         With(purgeFlushed(marked), LAMBDA w2 :
         With([w2 EXCEPT !.heads = {id \in @ : ~w2.insn[id].flushed},
                         !.slots = {id \in @ : ~w2.insn[id].flushed},
                         !.core.fetchToDecodeBuffer = {},
                         !.core.pc = found.address,
                         !.core.flushAfter = found.insnId,
                         !.core.flushes = @ + 1], LAMBDA w3 :
           IF w3.core.exceptionGenerated
              /\ w3.insn[w3.core.exceptionGeneratingInstruction].flushed
           THEN [w3 EXCEPT !.core.exceptionGenerated = FALSE,
                           !.core.exceptionGeneratingInstruction = NoId]
           ELSE w3)))
    ELSE IF requests.decode.shouldFlush
    THEN [w1 EXCEPT !.insn = [id \in DOMAIN @ |->
                                IF id \in w1.core.fetchToDecodeBuffer
                                THEN [@[id] EXCEPT !.flushed = TRUE] ELSE @[id]],
                    !.core.fetchToDecodeBuffer = {},
                    !.core.pc = requests.decode.address,
                    !.core.flushes = @ + 1]
    ELSE w1))

\* Core::processException(): waits for the MMU to drain, then the handler
\* completes and the exception is over.
processException(w) ==
  IF hasPendingRequests(w.mmu) THEN w
  ELSE [w EXCEPT !.core.exceptionGenerated = FALSE,
                 !.core.exceptionRegistered = FALSE]

\* staging_.getNextSeqID(): the oldest instruction still to be written back.
getNextSeqID(w) ==
  LET waiting == {id \in inFlight(w) : ~w.insn[id].flushed}
  IN IF waiting = {} THEN Cardinality({id \in DOMAIN w.insn : w.insn[id].kind # "none"})
     ELSE CHOOSE x \in waiting : \A y \in waiting : x <= y

\* Core::handleException(): [ok, w].
handleException(w) ==
  IF w.core.exceptionGeneratingInstruction > getNextSeqID(w)
  THEN [ok |-> FALSE, w |-> w]
  ELSE With(processException([w EXCEPT !.core.exceptionRegistered = TRUE]), LAMBDA w1 :
       With(markFlushed(w1, NoFlush), LAMBDA marked :
       With(purgeFlushed(marked), LAMBDA w2 :
         [ok |-> TRUE, w |-> [w2 EXCEPT !.heads = {}, !.slots = {}]])))

\* The end of Core::tick(), from the tick of the LSQ on: the LSQ ticks, an
\* active store is committed if it has become ready, the completion slots
\* move their tails to their heads, and the pipeline is flushed if needed.
coreTickTail(w, requests) ==
  With(lsqTick(w), LAMBDA w1 :
  With(IF w1.core.activeStore
          /\ w1.insn[w1.core.completedStoreAddrUops[1]].commitReady
       THEN With(commitStore(w1, w1.core.completedStoreAddrUops[1]), LAMBDA r :
              [r.w EXCEPT !.core.activeStore = FALSE,
                          !.core.loadViolation = r.ret,
                          !.core.completedStoreAddrUops = Tail(@)])
       ELSE w1, LAMBDA w2 :
  With([w2 EXCEPT !.heads = @ \cup w2.slots, !.slots = {}], LAMBDA w3 :
  With(IF w3.core.exceptionGenerated THEN handleException(w3)
       ELSE [ok |-> FALSE, w |-> w3], LAMBDA h :
    IF h.ok THEN h.w ELSE flushIfNeeded(w3, requests)))))

\* Core::canWriteback(seqId): nothing is written back while a store is
\* active, and instructions are written back in program order.
canWriteback(w, id) == ~w.core.activeStore /\ id = getNextSeqID(w)

(***************************************************************************)
(* The register alias table.  Per register type:                           *)
(*   mapping      architectural tag -> physical tag                        *)
(*   free         queue of free physical tags                              *)
(*   history      stack of the renames in flight, the oldest first: the    *)
(*                architectural tag, the tag allocated, the prior mapping  *)
(*   destination  physical tag -> architectural tag it was allocated for   *)
(* A register is [type, tag].                                              *)
(***************************************************************************)
RegTypes == 0..1

ArchTags == 0..(ArchCount - 1)

PhysTags == 0..(PhysCount - 1)

Reg(t, tag) == [type |-> t, tag |-> tag]

EmptyRAT ==
  [mapping |-> [t \in RegTypes |-> [a \in ArchTags |-> a]],
   free |-> [t \in RegTypes |-> [k \in 1..(PhysCount - ArchCount) |-> ArchCount + k - 1]],
   history |-> [t \in RegTypes |-> <<>>],
   destination |-> [t \in RegTypes |-> [p \in PhysTags |-> IF p \in ArchTags THEN p ELSE 0]]]

\* RegisterAliasTable::canAllocate(type, quantity).
canAllocate(w, t, quantity) == Len(w.rat.free[t]) >= quantity

\* RegisterAliasTable::allocate(archReg): the tag at the front of the free
\* queue becomes the mapping of archReg; the prior mapping goes on the
\* history stack.  The tag allocated is mapping[archReg] afterwards.
allocate(w, archReg) ==
  LET t == archReg.type
      tag == Head(w.rat.free[t])
      prior == w.rat.mapping[t][archReg.tag]
  IN [w EXCEPT !.rat.free[t] = Tail(@),
               !.rat.history[t] =
                  Append(@, [arch |-> archReg.tag, phys |-> tag, prior |-> prior]),
               !.rat.destination[t][tag] = archReg.tag,
               !.rat.mapping[t][archReg.tag] = tag]

\* RegisterAliasTable::commit(physReg): the oldest history entry of the
\* architectural register that produced physReg is popped and the tag it
\* holds is released to the free queue.
ratCommit(w, physReg) ==
  LET t == physReg.type
      h == w.rat.history[t]
      arch == w.rat.destination[t][physReg.tag]
      hits == {k \in 1..Len(h) : h[k].arch = arch}
  IN IF hits = {} THEN [w EXCEPT !.err = TRUE]
     ELSE LET k == CHOOSE x \in hits : \A y \in hits : x <= y
          IN [w EXCEPT !.rat.free[t] = Append(@, h[k].prior),
                       !.rat.history[t] = RemoveAt(@, k)]

\* RegisterAliasTable::rewind(physReg): the most recent history entry of
\* this rename is popped, the mapping goes back to the prior tag and
\* physReg returns to the free queue.
rewind(w, physReg) ==
  LET t == physReg.type
      h == w.rat.history[t]
      hits == {k \in 1..Len(h) : h[k].phys = physReg.tag}
  IN IF hits = {} THEN [w EXCEPT !.err = TRUE]
     ELSE LET k == CHOOSE x \in hits : \A y \in hits : y <= x
          IN [w EXCEPT !.rat.mapping[t][h[k].arch] = h[k].prior,
                       !.rat.free[t] = Append(@, physReg.tag),
                       !.rat.history[t] = RemoveAt(@, k)]

(***************************************************************************)
(* The reorder buffer of the out-of-order core.  Its members:              *)
(*   buffer       the instructions in flight, by sequence id, oldest first *)
(*   maxSize      its capacity                                             *)
(*   seqId        the next sequence id                                     *)
(*   shouldFlush, flushAfter, pc   the flush asked by the last commit      *)
(* A world of the reorder buffer is a world of the core with the fields    *)
(* rob, rat and log; log lists the calls made to the register alias table  *)
(* and to commitStore of the LSQ and the instructions removed from the     *)
(* buffer, in the order they happen.                                       *)
(***************************************************************************)
EmptyROB ==
  [buffer |-> <<>>, maxSize |-> ROBSize, seqId |-> 0,
   shouldFlush |-> FALSE, flushAfter |-> 0, pc |-> 0]

\* Instruction::canCommit().
canCommit(i) == i.commitReady

\* ReorderBuffer::getFreeSpace().
getFreeSpace(w) == w.rob.maxSize - Len(w.rob.buffer)

\* ReorderBuffer::reserve(insn): uop is the instruction, which takes the
\* next sequence id.
reserve(w, uop) ==
  [w EXCEPT !.err = @ \/ ~(Len(w.rob.buffer) < w.rob.maxSize),
            !.insn[w.rob.seqId] = uop,
            !.rob.seqId = @ + 1,
            !.rob.buffer = Append(@, w.rob.seqId)]

\* A bound on the commits of one call that ignores maxCommitSize.
maxCommitsWholeBuffer(maxCommitSize, size) == size

\* maxCommits of commit: std::min(maxCommitSize, buffer.size()).
maxCommitsOf(maxCommitSize, size) == Min(maxCommitSize, size)

\* The loop of commit over the destination registers of uop, from the k-th.
RECURSIVE commitDestinations(_, _, _)
commitDestinations(w, destinations, k) ==
  IF k > Len(destinations) THEN w
  ELSE With(ratCommit([w EXCEPT !.log = Append(@, [op |-> "commit",
                                                  reg |-> destinations[k]])],
                      destinations[k]), LAMBDA w1 :
         commitDestinations(w1, destinations, k + 1))

\* buffer.pop_front() in commit.
popFront(w) ==
  [w EXCEPT !.log = Append(@, [op |-> "pop", id |-> w.rob.buffer[1]]),
            !.rob.buffer = Tail(@)]

\* The call lsq.commitStore(uop) of commit with result r, entered in the
\* log with what it returned and the load getViolatingLoad() gives.
logged(r, uop) ==
  [r EXCEPT !.w.log = Append(@, [op |-> "commitStore", id |-> uop, ret |-> r.ret,
                                 load |-> r.w.lsq.violatingLoad])]

\* The loop of commit without the test of exceptionEncountered(): the
\* exception is raised and the instruction is committed like any other.
RECURSIVE commitLoopPastException(_, _, _)
commitLoopPastException(w, n, maxCommits) ==
  IF ~(n < maxCommits) THEN [ret |-> n, w |-> w]
  ELSE With(w.rob.buffer[1], LAMBDA uop :
    IF ~canCommit(w.insn[uop]) THEN [ret |-> n, w |-> w]
    ELSE With(commitDestinations(IF w.insn[uop].exception
                                 THEN raiseException(w, uop) ELSE w,
                                 w.insn[uop].dests, 1), LAMBDA w1 :
      IF w1.insn[uop].kind = "store"
      THEN With(logged(commitStore(w1, uop), uop), LAMBDA r :
           IF r.ret
           THEN With(r.w.lsq.violatingLoad, LAMBDA load :
                  [ret |-> n + 1,
                   w |-> popFront([r.w EXCEPT
                                     !.rob.shouldFlush = TRUE,
                                     !.rob.flushAfter = load - 1,
                                     !.rob.pc = getInstructionAddress(load)])])
           ELSE With(popFront(r.w), LAMBDA w2 :
                  commitLoopPastException(w2, n + 1, maxCommits)))
      ELSE IF w1.insn[uop].kind = "load"
      THEN With(popFront(commitLoad(w1, uop)), LAMBDA w2 :
             commitLoopPastException(w2, n + 1, maxCommits))
      ELSE With(popFront(w1), LAMBDA w2 :
             commitLoopPastException(w2, n + 1, maxCommits))))

\* The loop of commit, n instructions committed so far: [ret, w].
RECURSIVE commitLoop(_, _, _)
commitLoop(w, n, maxCommits) ==
  IF ~(n < maxCommits) THEN [ret |-> n, w |-> w]
  ELSE With(w.rob.buffer[1], LAMBDA uop :
    IF ~canCommit(w.insn[uop]) THEN [ret |-> n, w |-> w]
    ELSE IF w.insn[uop].exception
    THEN [ret |-> n + 1, w |-> popFront(raiseException(w, uop))]
    ELSE With(commitDestinations(w, w.insn[uop].dests, 1), LAMBDA w1 :
      IF w1.insn[uop].kind = "store"
      THEN With(logged(commitStore(w1, uop), uop), LAMBDA r :
           IF r.ret
           THEN With(r.w.lsq.violatingLoad, LAMBDA load :
                  [ret |-> n + 1,
                   w |-> popFront([r.w EXCEPT
                                     !.rob.shouldFlush = TRUE,
                                     !.rob.flushAfter = load - 1,
                                     !.rob.pc = getInstructionAddress(load)])])
           ELSE With(popFront(r.w), LAMBDA w2 : commitLoop(w2, n + 1, maxCommits)))
      ELSE IF w1.insn[uop].kind = "load"
      THEN With(popFront(commitLoad(w1, uop)), LAMBDA w2 :
             commitLoop(w2, n + 1, maxCommits))
      ELSE With(popFront(w1), LAMBDA w2 : commitLoop(w2, n + 1, maxCommits))))

\* ReorderBuffer::commit without the reset of shouldFlush_.
commitWithoutReset(w, maxCommitSize) ==
  commitLoop(w, 0, maxCommitsOf(maxCommitSize, Len(w.rob.buffer)))

\* ReorderBuffer::commit(maxCommitSize): [ret, w].
commit(w, maxCommitSize) ==
  With([w EXCEPT !.rob.shouldFlush = FALSE], LAMBDA w0 :
    commitLoop(w0, 0, maxCommitsOf(maxCommitSize, Len(w0.rob.buffer))))

\* ReorderBuffer::shouldFlush(), getFlushAddress() and getFlushSeqId().
shouldFlush(w) == w.rob.shouldFlush

getFlushAddress(w) == w.rob.pc

getFlushSeqId(w) == w.rob.flushAfter

\* The loop of flush over the destination registers of uop, from the k-th.
RECURSIVE rewindDestinations(_, _, _)
rewindDestinations(w, destinations, k) ==
  IF k > Len(destinations) THEN w
  ELSE With(rewind([w EXCEPT !.log = Append(@, [op |-> "rewind",
                                               reg |-> destinations[k]])],
                   destinations[k]), LAMBDA w1 :
         rewindDestinations(w1, destinations, k + 1))

\* The position of the oldest instruction of the buffer.
front(buffer) == 1

\* buffer.back(): the position of the youngest instruction of the buffer.
back(buffer) == Len(buffer)

\* A test that also takes the instruction the flush is after.
notOlderThan(id, afterSeqId) == id >= afterSeqId

\* The instruction is newer than afterSeqId: the loop of flush goes on.
newerThan(id, afterSeqId) == ~(id <= afterSeqId)

\* ReorderBuffer::flush(afterSeqId).
RECURSIVE flush(_, _)
flush(w, afterSeqId) ==
  IF Len(w.rob.buffer) = 0 THEN w
  ELSE With(back(w.rob.buffer), LAMBDA pos :
       With(w.rob.buffer[pos], LAMBDA uop :
         IF ~newerThan(uop, afterSeqId) THEN w
         ELSE With(rewindDestinations(w, w.insn[uop].dests, 1), LAMBDA w1 :
              With([w1 EXCEPT !.insn[uop].flushed = TRUE,
                              !.log = Append(@, [op |-> "flush", id |-> uop]),
                              !.rob.buffer = RemoveAt(@, pos)], LAMBDA w2 :
                flush(w2, afterSeqId)))))

\* The pipeline around the LSQ at the start: the phase of the cycle and the
\* completion slots (the tails written in this cycle, the heads writeback
\* reads).
EmptyPipe == [phase |-> "mem", heads |-> {}, slots |-> {}]

\* Nothing has been observed yet.
EmptyHist ==
  [euFlushes |-> 0,
   detected |-> 0,
   pending |-> NoId,
   handled |-> [load |-> NoId, flushedTo |-> NoFlush, pc |-> 0],
   lastCommit |-> [store |-> NoId, ret |-> FALSE, violating |-> NoId, expected |-> FALSE,
                   scanned |-> {}],
   blockers |-> EmptyMap,
   aborted |-> {},
   startOrder |-> <<>>,
   delivered |-> <<>>]

(***************************************************************************)
(* Specification of the MMU on its own: a driver offers loads and stores,  *)
(* ticks the MMU, and the memory answers the packets in any order.         *)
(***************************************************************************)
\* The values tried for each request limit, and the (load, store) bandwidths.
LimitValues == {1, 2}

Bandwidths == {<<1, 2>>, <<2, 1>>}

Configs ==
  {[exclusiveRequests |-> e,
    loadBandwidth |-> b[1],
    storeBandwidth |-> b[2],
    requestLimit |-> r,
    loadRequestLimit |-> l,
    storeRequestLimit |-> s,
    cacheLineWidth |-> 2] :
     e \in BOOLEAN, b \in Bandwidths, r \in LimitValues, l \in LimitValues,
     s \in LimitValues}

\* The page tables a call may see: all translations OK, or any answers while
\* the budget of faulting calls lasts.
AllOK == [p \in Pages |-> "OK"]

PageTables == IF faultCalls < MaxFaultCalls THEN [Pages -> FaultCodes] ELSE {AllOK}

countFault(xl) == IF xl = AllOK THEN faultCalls ELSE faultCalls + 1

MMUWorld == [mmu |-> mmu, insn |-> insn, port |-> port, issued |-> issued, err |-> err]

\* The variables of the MMU take the values of world w.
MMUBecomes(w) ==
  /\ mmu' = w.mmu
  /\ insn' = w.insn
  /\ port' = w.port
  /\ issued' = w.issued
  /\ err' = w.err

InitMMU ==
  /\ cfg \in Configs
  /\ insn = [i \in Ids |-> NoInsn]
  /\ mmu = EmptyMMU
  /\ port = EmptyBag
  /\ mem = [a \in MemAddrs |-> 0]
  /\ issued = [LD |-> 0, STR |-> 0]
  /\ nextSeq = 0
  /\ faultCalls = 0
  /\ err = FALSE
  /\ lsq = EmptyLSQ("INORDER")
  /\ core = EmptyCore
  /\ pipe = EmptyPipe
  /\ rob = EmptyROB
  /\ rat = EmptyRAT
  /\ diu = NoDIU
  /\ hist = EmptyHist

\* The driver calls requestRead with a new load; a call that returns false
\* leaves the MMU as it was, and the driver offers the load again later.
MMURequestRead ==
  /\ nextSeq < MaxMMUReqs
  /\ \E tg \in Targets :
       LET uop == NewInsn("load", <<tg>>, TRUE)
           r == requestRead([MMUWorld EXCEPT !.insn[nextSeq] = uop], nextSeq)
       IN /\ r.ok
          /\ MMUBecomes(r.w)
          /\ nextSeq' = nextSeq + 1
  /\ UNCHANGED <<diu, cfg, rob, rat, mem, faultCalls, lsq, core, pipe, hist>>

\* The driver calls requestWrite with a new store and its data; a call that
\* returns false leaves the MMU as it was.
MMURequestWrite ==
  /\ nextSeq < MaxMMUReqs
  /\ \E tg \in Targets :
       LET uop == [NewInsn("store", <<tg>>, TRUE)
                     EXCEPT !.data = <<StoreBytes(nextSeq, tg.size)>>]
           r == requestWrite([MMUWorld EXCEPT !.insn[nextSeq] = uop], nextSeq)
       IN /\ r.ok
          /\ MMUBecomes(r.w)
          /\ nextSeq' = nextSeq + 1
  /\ UNCHANGED <<diu, cfg, rob, rat, mem, faultCalls, lsq, core, pipe, hist>>

\* The packets of a queue of pending instructions.
queuedPackets(queue) == UNION {Range(queue[i]) : i \in 1..Len(queue)}

\* The splits (load, orderId, splitId) of the read packets of pkts whose
\* translation under page table xl is a data abort.
abortedReads(pkts, xl) ==
  {[seq |-> pkt.insnSeqId, order |-> pkt.packetOrderId, split |-> pkt.packetSplitId] :
     pkt \in {x \in pkts : x.type = "read" /\ translate(xl, x.vaddr) = "DATA_ABORT"}}

\* One cycle of the MMU; the splits issued in this cycle that met a data
\* abort are recorded.
MMUTick ==
  /\ \E xl \in PageTables :
       /\ \E w \in {mmuTick(MMUWorld, xl)} :
            /\ MMUBecomes(w)
            /\ hist' = [hist EXCEPT !.aborted =
                          @ \cup abortedReads(queuedPackets(mmu.ld) \ queuedPackets(w.mmu.ld),
                                              xl)]
       /\ faultCalls' = countFault(xl)
  /\ UNCHANGED <<diu, cfg, rob, rat, mem, nextSeq, lsq, core, pipe>>

\* The memory answers one of the packets it holds.
MemRespond ==
  /\ \E pkt \in BagToSet(port) :
       /\ mem' = memWrite(mem, pkt)
       /\ MMUBecomes(receive([MMUWorld EXCEPT !.port = @ (-) SetToBag({pkt})],
                             memResponse(mem, pkt)))
  /\ UNCHANGED <<diu, cfg, rob, rat, nextSeq, faultCalls, lsq, core, pipe, hist>>

\* The page tables in which the translation of vaddr has been resolved: it is
\* answered with an address, a data abort or IGNORED.
ResolvedTables(vaddr) == {xl \in [Pages -> FaultCodes] : translate(xl, vaddr) # "PENDING"}

\* The translation of a parked address has been resolved and the MMU is told.
MMUSupplyDelayedTranslation ==
  /\ \E vaddr \in DOMAIN mmu.pendingRequests :
       \E xl \in ResolvedTables(vaddr) :
         /\ \E w \in {supplyDelayedTranslation(MMUWorld, vaddr, xl)} : MMUBecomes(w)
         /\ hist' = [hist EXCEPT !.aborted =
                       @ \cup abortedReads(Range(mmu.pendingRequests[vaddr]), xl)]
  /\ UNCHANGED <<diu, cfg, rob, rat, mem, nextSeq, faultCalls, lsq, core, pipe>>

NextMMU ==
  \/ MMURequestRead
  \/ MMURequestWrite
  \/ MMUTick
  \/ MemRespond
  \/ MMUSupplyDelayedTranslation

SpecMMU == InitMMU /\ [][NextMMU]_vars

\* The translator completes every translation it reported as pending: a
\* parked address does not wait for ever for supplyDelayedTranslation.
SpecMMUFair == SpecMMU /\ WF_vars(MMUSupplyDelayedTranslation)

(***************************************************************************)
(* Specification of the LSQ driven by the in-order core.  A cycle is: the  *)
(* memory answers packets ("mem"), writeback retires instructions in       *)
(* program order ("wb"), instructions are dispatched and executed ("ex"),  *)
(* the core's cycle ends with the tick of the LSQ and the flush ("mmu"),   *)
(* and the MMU ticks.  Instructions other than loads and stores are left   *)
(* out; a mispredicted branch shows as a flush asked by the execution      *)
(* units.                                                                  *)
(***************************************************************************)
\* The MMU serves loads and stores exclusively, two bytes and two requests
\* of a type per cycle.
LSQConfigs ==
  {[exclusiveRequests |-> TRUE, loadBandwidth |-> 2, storeBandwidth |-> 2,
    requestLimit |-> 2, loadRequestLimit |-> 2, storeRequestLimit |-> 2,
    cacheLineWidth |-> 2]}

\* The memory targets of the loads and stores dispatched: single bytes and a
\* pair of bytes that overlaps both.
LSQTargets ==
  {[vaddr |-> 0, size |-> 1], [vaddr |-> 1, size |-> 1], [vaddr |-> 0, size |-> 2]}

\* The bytes a target covers, and the bytes two address lists share.
bytesOf(t) == t.vaddr..(t.vaddr + t.size - 1)

sharedBytes(as, bs) ==
  {a \in MemAddrs : /\ \E i \in 1..Len(as) : a \in bytesOf(as[i])
                    /\ \E j \in 1..Len(bs) : a \in bytesOf(bs[j])}

LSQWorld ==
  [mmu |-> mmu, insn |-> insn, port |-> port, issued |-> issued, err |-> err,
   lsq |-> lsq, core |-> core, slots |-> pipe.slots, heads |-> pipe.heads]

\* The variables of the pipeline take the values of world w, in phase ph.
LSQBecomes(w, ph) ==
  /\ mmu' = w.mmu
  /\ insn' = w.insn
  /\ port' = w.port
  /\ issued' = w.issued
  /\ err' = w.err
  /\ lsq' = w.lsq
  /\ core' = w.core
  /\ pipe' = [pipe EXCEPT !.phase = ph, !.heads = w.heads, !.slots = w.slots]

InitLSQ ==
  /\ cfg \in LSQConfigs
  /\ insn = [i \in LSQIds |-> NoInsn]
  /\ mmu = EmptyMMU
  /\ port = EmptyBag
  /\ mem = [a \in MemAddrs |-> 0]
  /\ issued = [LD |-> 0, STR |-> 0]
  /\ nextSeq = 0
  /\ faultCalls = 0
  /\ err = FALSE
  /\ lsq = EmptyLSQ("INORDER")
  /\ core = EmptyCore
  /\ pipe = EmptyPipe
  /\ rob = EmptyROB
  /\ rat = EmptyRAT
  /\ diu = NoDIU
  /\ hist = EmptyHist

\* Dispatch of the next instruction in program order: it enters the LSQ.
Dispatch ==
  /\ pipe.phase # "mmu"
  /\ nextSeq < MaxLSQInsns
  /\ ~core.exceptionRegistered
  /\ \E kind \in {"load", "store"}, tg \in LSQTargets :
       \E w \in {[LSQWorld EXCEPT !.insn[nextSeq] = NewInsn(kind, <<tg>>, FALSE)]} :
         LSQBecomes(IF kind = "load" THEN addLoad(w, nextSeq) ELSE addStore(w, nextSeq),
                    "ex")
  /\ nextSeq' = nextSeq + 1
  /\ UNCHANGED <<diu, cfg, rob, rat, mem, faultCalls, hist>>

\* The instructions an execution unit may execute now.
Executable(kind) ==
  {id \in LSQIds : /\ insn[id].kind = kind
                   /\ Len(insn[id].addrs) = 0
                   /\ ~insn[id].flushed
                   /\ id \notin core.retired}

\* An execution unit executes a load: its addresses are generated and the
\* LSQ starts it.
ExecLoad ==
  /\ pipe.phase # "mmu"
  /\ ~core.exceptionRegistered
  /\ \E id \in Executable("load") :
       LET w == [LSQWorld EXCEPT !.insn[id].addrs = insn[id].tgts]
           known == {lsq.storeQueue[k].id : k \in 1..Len(lsq.storeQueue)}
       IN /\ \E after \in {startLoad(w, id)} : LSQBecomes(after, "ex")
          /\ hist' = [hist EXCEPT !.blockers =
                        MapPut(@, id, {s \in known :
                                         /\ s < id
                                         /\ sharedBytes(insn[s].addrs, insn[id].tgts) # {}}),
                                   !.startOrder = Append(@, id)]
  /\ UNCHANGED <<diu, cfg, rob, rat, mem, nextSeq, faultCalls>>

\* An execution unit executes a store: its addresses are generated, its data
\* goes to the LSQ, and it moves to its completion slot.
ExecStore ==
  /\ pipe.phase # "mmu"
  /\ ~core.exceptionRegistered
  /\ \E id \in Executable("store") :
       LET tgts == insn[id].tgts
           uop == [execute(insn[id]) EXCEPT
                     !.addrs = tgts,
                     !.data = [k \in 1..Len(tgts) |-> StoreBytes(id, tgts[k].size)]]
       IN \E w \in {supplyStoreData([LSQWorld EXCEPT !.insn[id] = uop], id)} :
            LSQBecomes([w EXCEPT !.slots = @ \cup {id}], "ex")
  /\ UNCHANGED <<diu, cfg, rob, rat, mem, nextSeq, faultCalls, hist>>

\* Writeback retires the instruction at the head of a completion slot that
\* is next in program order.
Retire ==
  /\ pipe.phase \in {"mem", "wb"}
  /\ ~core.exceptionRegistered
  /\ \E id \in pipe.heads :
       LET w == [LSQWorld EXCEPT !.heads = @ \ {id}]
           isStore == insn[id].kind = "store" /\ ~insn[id].exception
           expected == \E l \in lsq.requestedLoads :
                         /\ l > id
                         /\ sharedBytes(insn[id].addrs, insn[l].addrs) # {}
       IN /\ ~insn[id].flushed
          /\ canWriteback(LSQWorld, id)
          /\ \E after \in {retireInstruction(w, id)} : LSQBecomes(after, "wb")
          /\ hist' = IF isStore
                     THEN With(startStore(w, id), LAMBDA started :
                          With(commitStore(started, id), LAMBDA r :
                            [hist EXCEPT
                               !.detected = IF r.ret THEN @ + 1 ELSE @,
                               !.pending = IF r.ret THEN r.w.lsq.violatingLoad ELSE @,
                               !.lastCommit = [store |-> id, ret |-> r.ret,
                                               violating |-> r.w.lsq.violatingLoad,
                                               expected |-> expected,
                                               scanned |-> started.lsq.requestedLoads]]))
                     ELSE hist
  /\ UNCHANGED <<diu, cfg, rob, rat, mem, nextSeq, faultCalls>>

\* The flushes the execution units may ask for at the end of this cycle:
\* none, or a flush after an instruction behind which something is in flight.
EUFlushes ==
  {NoFlush} \cup
  (IF hist.euFlushes < MaxEUFlushes
   THEN {a \in -1..(nextSeq - 2) :
           /\ \A id \in core.retired : id <= a
           /\ \E id \in LSQIds : /\ id > a
                                 /\ insn[id].kind # "none"
                                 /\ ~insn[id].flushed}
   ELSE {})

\* The loads the tick of the LSQ writes to the completion slots, in the
\* order of the slots.
completedInTick(w) ==
  With(lsqTick(w).slots \ w.slots, LAMBDA written :
    SelectSeq(w.lsq.completedRequests,
              LAMBDA id : id \in written /\ w.insn[id].kind = "load"))

\* The end of the core's cycle.
CoreTickTail ==
  /\ pipe.phase # "mmu"
  /\ ~core.exceptionRegistered
  /\ lsq.tickCounter < MaxTicks
  /\ \E euFlush \in EUFlushes :
       \E w \in {coreTickTail(LSQWorld, [eus |-> <<fallThrough(euFlush)>>,
                                          decode |-> NoRequest])} :
          LET flushed == w.core.flushes > core.flushes
          IN
          /\ LSQBecomes(w, "mmu")
          /\ hist' = [hist EXCEPT
                        !.euFlushes = IF euFlush = NoFlush THEN @ ELSE @ + 1,
                        !.pending = NoId,
                        !.delivered = @ \o completedInTick(LSQWorld),
                        !.lastCommit = EmptyHist.lastCommit,
                        !.handled = IF hist.pending = NoId THEN EmptyHist.handled
                                    ELSE [load |-> hist.pending,
                                          flushedTo |-> IF flushed THEN w.core.flushAfter
                                                        ELSE NoFlush,
                                          pc |-> w.core.pc]]
  /\ UNCHANGED <<diu, cfg, rob, rat, mem, nextSeq, faultCalls>>

\* One cycle of the MMU, after the core's.
LSQMMUTick ==
  /\ pipe.phase = "mmu"
  /\ \E w \in {mmuTick(LSQWorld, AllOK)} : LSQBecomes(w, "mem")
  /\ UNCHANGED <<diu, cfg, rob, rat, mem, nextSeq, faultCalls, hist>>

\* The memory answers one of the packets it holds.
LSQMemRespond ==
  /\ pipe.phase = "mem"
  /\ \E pkt \in BagToSet(port) :
       /\ mem' = memWrite(mem, pkt)
       /\ \E w \in {receive([LSQWorld EXCEPT !.port = @ (-) SetToBag({pkt})],
                            memResponse(mem, pkt))} : LSQBecomes(w, "mem")
  /\ UNCHANGED <<diu, cfg, rob, rat, nextSeq, faultCalls, hist>>

NextLSQ ==
  \/ Dispatch
  \/ ExecLoad
  \/ ExecStore
  \/ Retire
  \/ CoreTickTail
  \/ LSQMMUTick
  \/ LSQMemRespond

SpecLSQ == InitLSQ /\ [][NextLSQ]_vars

(***************************************************************************)
(* Specification of the reorder buffer in the out-of-order core: rename    *)
(* allocates the destination registers of the next instruction and         *)
(* reserves its entry, the execution units and writeback make instructions *)
(* commit-ready in any order, the core commits from the head, and the core *)
(* flushes after a memory-order violation, an exception or a mispredicted  *)
(* branch.  The memory round trip of a load is left out: a load that the   *)
(* LSQ has requested is written back in one step.                          *)
(***************************************************************************)
ROBIds == 0..(MaxROBInsns - 1)

ROBTargets == {[vaddr |-> 0, size |-> 1]}

\* The instructions rename may see: kind, memory targets and architectural
\* destination registers.
ROBInsns ==
  {[kind |-> "alu", tgts |-> <<>>, dests |-> d] :
     d \in {<<>>, <<Reg(0, 0)>>, <<Reg(0, 0), Reg(1, 0)>>}}
  \cup {[kind |-> "load", tgts |-> <<tg>>, dests |-> <<Reg(0, 0)>>] : tg \in ROBTargets}
  \cup {[kind |-> "store", tgts |-> <<tg>>, dests |-> <<>>] : tg \in ROBTargets}

ROBWorld ==
  [mmu |-> mmu, insn |-> insn, port |-> port, issued |-> issued, err |-> err,
   lsq |-> lsq, core |-> core, slots |-> pipe.slots, heads |-> pipe.heads,
   rob |-> rob, rat |-> rat, log |-> <<>>]

\* The variables of the core take the values of world w, in phase ph.
ROBBecomes(w, ph) ==
  /\ mmu' = w.mmu
  /\ insn' = w.insn
  /\ port' = w.port
  /\ issued' = w.issued
  /\ err' = w.err
  /\ lsq' = w.lsq
  /\ core' = w.core
  /\ rob' = w.rob
  /\ rat' = w.rat
  /\ pipe' = [pipe EXCEPT !.phase = ph]

\* Nothing has been observed yet.
EmptyROBHist ==
  [flushes |-> 0, exceptions |-> 0,
   committed |-> <<>>,
   lastCommit |-> [called |-> FALSE, maxCommitSize |-> 0, ret |-> 0,
                   before |-> <<>>, after |-> <<>>, ready |-> {}, log |-> <<>>],
   lastFlush |-> [called |-> FALSE, afterSeqId |-> 0,
                  before |-> <<>>, after |-> <<>>, log |-> <<>>]]

\* The observations of the last call are kept until the next step.
ROBForget(h) ==
  [h EXCEPT !.lastCommit = EmptyROBHist.lastCommit,
            !.lastFlush = EmptyROBHist.lastFlush]

InitROB ==
  /\ cfg \in LSQConfigs
  /\ insn = [i \in ROBIds |-> NoInsn]
  /\ mmu = EmptyMMU
  /\ port = EmptyBag
  /\ mem = [a \in MemAddrs |-> 0]
  /\ issued = [LD |-> 0, STR |-> 0]
  /\ nextSeq = 0
  /\ faultCalls = 0
  /\ err = FALSE
  /\ lsq = EmptyLSQ("OUTOFORDER")
  /\ core = EmptyCore
  /\ pipe = [EmptyPipe EXCEPT !.phase = "run"]
  /\ rob = EmptyROB
  /\ rat = EmptyRAT
  /\ diu = NoDIU
  /\ hist = EmptyROBHist

\* The number of registers of type t among the destinations.
destinationsOfType(destinations, t) ==
  Cardinality({k \in 1..Len(destinations) : destinations[k].type = t})

\* RenameUnit: the destinations from the k-th are renamed; [w, dests] with
\* the physical registers allocated so far in dests.
RECURSIVE renameDestinations(_, _, _, _)
renameDestinations(w, destinations, k, dests) ==
  IF k > Len(destinations) THEN [w |-> w, dests |-> dests]
  ELSE With(allocate(w, destinations[k]), LAMBDA w1 :
       With(Reg(destinations[k].type,
                w1.rat.mapping[destinations[k].type][destinations[k].tag]), LAMBDA p :
       With(Append(dests, p), LAMBDA ds :
         renameDestinations(w1, destinations, k + 1, ds))))

\* RenameUnit::tick for one instruction m that does not stall.
rename(w, m) ==
  With(renameDestinations(w, m.dests, 1, <<>>), LAMBDA r :
  With(r.w.rob.seqId, LAMBDA id :
  With(reserve(r.w, NewInsn(m.kind, m.tgts, FALSE) @@ [dests |-> r.dests]), LAMBDA w1 :
    IF m.kind = "load" THEN addLoad(w1, id)
    ELSE IF m.kind = "store" THEN addStore(w1, id)
    ELSE w1)))

Rename ==
  /\ pipe.phase = "run"
  /\ rob.seqId < MaxROBInsns
  /\ getFreeSpace(ROBWorld) >= 1
  /\ \E m \in ROBInsns :
       /\ \A t \in RegTypes : canAllocate(ROBWorld, t, destinationsOfType(m.dests, t))
       /\ \E w \in {rename(ROBWorld, m)} : ROBBecomes(w, "run")
  /\ hist' = ROBForget(hist)
  /\ UNCHANGED <<diu, cfg, mem, nextSeq, faultCalls>>

\* The instructions of the buffer an execution unit may execute now.
ROBExecutable ==
  {id \in Range(rob.buffer) : /\ ~insn[id].commitReady
                              /\ ~insn[id].executed
                              /\ Len(insn[id].addrs) = 0}

\* An execution unit executes an instruction.  A load is started in the
\* LSQ; a store hands its data to the LSQ and is written back; any other
\* instruction is written back.  A store and any other instruction that is
\* not a load may come back with an exception.
ROBExecute ==
  /\ pipe.phase = "run"
  /\ \E id \in ROBExecutable :
       \E exception \in IF insn[id].kind \in {"alu", "store"}
                           /\ hist.exceptions < MaxROBExceptions
                        THEN BOOLEAN ELSE {FALSE} :
         LET tgts == insn[id].tgts
             w == IF insn[id].kind = "load"
                  THEN startLoad([ROBWorld EXCEPT !.insn[id].addrs = tgts], id)
                  ELSE IF insn[id].kind = "store"
                  THEN supplyStoreData(
                         [ROBWorld EXCEPT
                            !.insn[id] =
                               [execute(@) EXCEPT
                                  !.exception = exception,
                                  !.addrs = tgts,
                                  !.data = [k \in 1..Len(tgts) |->
                                              StoreBytes(id, tgts[k].size)],
                                  !.commitReady = TRUE]], id)
                  ELSE [ROBWorld EXCEPT
                          !.insn[id] = [execute(@) EXCEPT !.exception = exception,
                                                          !.commitReady = TRUE]]
         IN /\ \E after \in {w} : ROBBecomes(after, "run")
            /\ hist' = [ROBForget(hist) EXCEPT
                          !.exceptions = IF exception THEN @ + 1 ELSE @]
  /\ UNCHANGED <<diu, cfg, mem, nextSeq, faultCalls>>

\* Writeback of a load the LSQ has requested: it becomes commit-ready.
ROBWriteback ==
  /\ pipe.phase = "run"
  /\ \E id \in Range(rob.buffer) \cap lsq.requestedLoads :
       /\ ~insn[id].commitReady
       /\ ROBBecomes([ROBWorld EXCEPT !.insn[id].executed = TRUE,
                                      !.insn[id].commitReady = TRUE], "run")
  /\ hist' = ROBForget(hist)
  /\ UNCHANGED <<diu, cfg, mem, nextSeq, faultCalls>>

\* The ids of the instructions a log says were removed by operation op.
RECURSIVE removedIn(_, _)
removedIn(log, op) ==
  IF Len(log) = 0 THEN <<>>
  ELSE (IF log[1].op = op THEN <<log[1].id>> ELSE <<>>) \o removedIn(Tail(log), op)

\* The core calls commit; a flush or an exception it asks for comes next.
ROBCommit ==
  /\ pipe.phase = "run"
  /\ Len(rob.buffer) > 0
  /\ \E maxCommitSize \in 1..MaxCommitSize :
       \E r \in {commit(ROBWorld, maxCommitSize)} :
         /\ ROBBecomes(r.w, IF r.w.rob.shouldFlush \/ r.w.core.exceptionGenerated
                            THEN "flush" ELSE "run")
         /\ hist' = [ROBForget(hist) EXCEPT
                       !.committed = @ \o removedIn(r.w.log, "pop"),
                       !.lastCommit =
                          [called |-> TRUE, maxCommitSize |-> maxCommitSize,
                           ret |-> r.ret,
                           before |-> rob.buffer, after |-> r.w.rob.buffer,
                           ready |-> {id \in Range(rob.buffer) : canCommit(insn[id])},
                           log |-> r.w.log]]
  /\ UNCHANGED <<diu, cfg, mem, nextSeq, faultCalls>>

\* The instructions the core may flush after: the one the last commit asked
\* for, the instruction that raised an exception, or a branch found
\* mispredicted.
ROBFlushPoints ==
  IF pipe.phase = "flush"
  THEN {IF core.exceptionGenerated THEN core.exceptionGeneratingInstruction
        ELSE rob.flushAfter}
  ELSE IF hist.flushes < MaxROBFlushes THEN 0..(rob.seqId - 1)
  ELSE {}

\* The core flushes the reorder buffer and purges the LSQ.
ROBFlush ==
  /\ \E afterSeqId \in ROBFlushPoints :
       \E w \in {purgeFlushed(flush(ROBWorld, afterSeqId))} :
         /\ ROBBecomes([w EXCEPT !.core.exceptionGenerated = FALSE], "run")
         /\ hist' = [ROBForget(hist) EXCEPT
                       !.flushes = IF pipe.phase = "flush" THEN @ ELSE @ + 1,
                       !.lastFlush =
                          [called |-> TRUE, afterSeqId |-> afterSeqId,
                           before |-> rob.buffer, after |-> w.rob.buffer,
                           log |-> w.log]]
  /\ UNCHANGED <<diu, cfg, mem, nextSeq, faultCalls>>

NextROB ==
  \/ Rename
  \/ ROBExecute
  \/ ROBWriteback
  \/ ROBCommit
  \/ ROBFlush

SpecROB == InitROB /\ [][NextROB]_vars

(***************************************************************************)
(* Specification of the splitting of one target: for a cache line width, a *)
(* target and a payload, the payload is written with requestWrite(target,  *)
(* data), the memory performs the writes in any order, then a load of the  *)
(* same target is requested, issued and answered in any order.  A second   *)
(* load, of two targets, may be requested while the first is outstanding,  *)
(* so that the responses of the two loads interleave.                      *)
(***************************************************************************)
SplitTargets ==
  {[vaddr |-> a, size |-> s] : a \in 0..MaxSplitAddr, s \in 1..MaxSplitSize}

\* Payloads of distinct non-zero bytes.
SplitPayloads(size) == {[i \in 1..size |-> i], [i \in 1..size |-> size + 1 - i]}

SplitConfigs ==
  {[exclusiveRequests |-> TRUE,
    loadBandwidth |-> MaxSplitSize, storeBandwidth |-> MaxSplitSize,
    requestLimit |-> 2, loadRequestLimit |-> 2, storeRequestLimit |-> 1,
    cacheLineWidth |-> width] : width \in 1..MaxWidth}

\* The first targets tried for the load of two targets.
PairTargets == {[vaddr |-> a, size |-> MaxPairSize] : a \in 0..1}

\* Every translation is answered OK.
SplitOK == [p \in 0..pageOf(MaxSplitAddr + MaxSplitSize) |-> "OK"]

InitSplit ==
  /\ cfg \in SplitConfigs
  /\ insn = [i \in 0..2 |-> NoInsn]
  /\ mmu = EmptyMMU
  /\ port = EmptyBag
  /\ mem = [a \in 0..(MaxSplitAddr + MaxSplitSize - 1) |-> 0]
  /\ issued = [LD |-> 0, STR |-> 0]
  /\ nextSeq = 0
  /\ faultCalls = 0
  /\ err = FALSE
  /\ lsq = EmptyLSQ("INORDER")
  /\ core = EmptyCore
  /\ pipe = [EmptyPipe EXCEPT !.phase = "input"]
  /\ rob = EmptyROB
  /\ rat = EmptyRAT
  /\ diu = NoDIU
  /\ hist = [target |-> [vaddr |-> 0, size |-> 0], data |-> <<>>,
             writePkts |-> <<>>, readPkts |-> <<>>, outOfOrder |-> {}]

\* The payload is written to the target.
SplitWrite ==
  /\ pipe.phase = "input"
  /\ \E target \in SplitTargets :
       \E data \in SplitPayloads(target.size) :
         /\ \E w \in {requestWriteTarget(MMUWorld, target, data, SplitOK)} : MMUBecomes(w)
         /\ hist' = [hist EXCEPT !.target = target, !.data = data,
                                 !.writePkts = createWriteMemPackets(target, data, 0, 0)]
  /\ pipe' = [pipe EXCEPT !.phase = "store"]
  /\ UNCHANGED <<diu, cfg, rob, rat, mem, nextSeq, faultCalls, lsq, core>>

\* Once the memory has performed the writes, a load of the target is
\* requested.
SplitRead ==
  /\ pipe.phase = "store"
  /\ port = EmptyBag
  /\ \E r \in {requestRead([MMUWorld EXCEPT
                              !.insn[1] = NewInsn("load", <<hist.target>>, TRUE)], 1)} :
       /\ r.ok
       /\ MMUBecomes(r.w)
       /\ hist' = [hist EXCEPT !.readPkts = r.w.mmu.ld[Len(r.w.mmu.ld)]]
  /\ pipe' = [pipe EXCEPT !.phase = "load"]
  /\ UNCHANGED <<diu, cfg, rob, rat, mem, nextSeq, faultCalls, lsq, core>>

\* A load of two targets, the second of them the target written, is
\* requested after the first load.
SplitReadPair ==
  /\ pipe.phase = "load"
  /\ insn[2] = NoInsn
  /\ hist.target.size <= MaxPairSize
  /\ \E first \in PairTargets :
       \E r \in {requestRead([MMUWorld EXCEPT
                    !.insn[2] = NewInsn("load", <<first, hist.target>>, TRUE)], 2)} :
         /\ r.ok
         /\ MMUBecomes(r.w)
  /\ UNCHANGED <<diu, cfg, rob, rat, mem, nextSeq, faultCalls, lsq, core, pipe, hist>>

\* One cycle of the MMU with packets of the loads to issue.
SplitTick ==
  /\ pipe.phase = "load"
  /\ Len(mmu.ld) > 0
  /\ \E w \in {mmuTick(MMUWorld, SplitOK)} : MMUBecomes(w)
  /\ UNCHANGED <<diu, cfg, rob, rat, mem, nextSeq, faultCalls, lsq, core, pipe, hist>>

\* A response to read packet pkt arrives while an earlier packet of the same
\* load, in (orderId, splitId) order, is still outstanding.
arrivesOutOfOrder(pkt) ==
  /\ pkt.insnSeqId \in DOMAIN mmu.readResponses
  /\ LET packets == mmu.readResponses[pkt.insnSeqId]
     IN \E o \in DOMAIN packets : \E j \in 1..Len(packets[o]) :
          /\ packets[o][j] = NoPacket
          /\ \/ o < pkt.packetOrderId
             \/ o = pkt.packetOrderId /\ j - 1 < pkt.packetSplitId

\* The memory answers one of the packets it holds; the loads with a response
\* that arrived out of order are recorded.
SplitMemRespond ==
  /\ \E pkt \in BagToSet(port) :
       /\ mem' = memWrite(mem, pkt)
       /\ \E w \in {receive([MMUWorld EXCEPT !.port = @ (-) SetToBag({pkt})],
                            memResponse(mem, pkt))} : MMUBecomes(w)
       /\ hist' = IF pkt.type = "read" /\ arrivesOutOfOrder(pkt)
                  THEN [hist EXCEPT !.outOfOrder = @ \cup {pkt.insnSeqId}]
                  ELSE hist
  /\ UNCHANGED <<diu, cfg, rob, rat, nextSeq, faultCalls, lsq, core, pipe>>

NextSplit ==
  \/ SplitWrite
  \/ SplitRead
  \/ SplitReadPair
  \/ SplitTick
  \/ SplitMemRespond

SpecSplit == InitSplit /\ [][NextSplit]_vars

(***************************************************************************)
(* PipelineBuffer<T>.  Its members:                                        *)
(*   width        slots in a row                                           *)
(*   buffer       the two rows, length * width slots (here indexed from 1) *)
(*   headIsStart  offset of the tail row, 0 or 1 (the head is the other)   *)
(*   isStalled    the stall flag                                           *)
(*   emptyVal     the value of an empty slot                               *)
(***************************************************************************)
\* The number of stages in the pipeline.
length == 2

\* PipelineBuffer(width, initialValue).
PipelineBuffer(width, initialValue) ==
  [width |-> width,
   buffer |-> [k \in 1..(width * length) |-> initialValue],
   headIsStart |-> 0,
   isStalled |-> FALSE,
   emptyVal |-> initialValue]

\* tick() with the rows left where they are.
tickKeepingRows(b) == b

\* tick() with the stall flag not consulted.
tickIgnoringStall(b) == [b EXCEPT !.headIsStart = 1 - @]

\* PipelineBuffer::tick().
tick(b) == IF b.isStalled THEN b ELSE [b EXCEPT !.headIsStart = 1 - @]

\* Offset in buffer of the row getTailSlots() and getHeadSlots() point to.
tailOffset(b) == b.headIsStart * b.width

headOffset(b) == (1 - b.headIsStart) * b.width

\* The slots getTailSlots() and getHeadSlots() point to.
getTailSlots(b) == [k \in 1..b.width |-> b.buffer[tailOffset(b) + k]]

getHeadSlots(b) == [k \in 1..b.width |-> b.buffer[headOffset(b) + k]]

\* PipelineBuffer::stall(stalled), fill(value), isEmpty().
stall(b, stalled) == [b EXCEPT !.isStalled = stalled]

fill(b, value) == [b EXCEPT !.buffer = [k \in DOMAIN @ |-> value]]

isEmpty(b) == \A k \in DOMAIN b.buffer : b.buffer[k] = b.emptyVal

(***************************************************************************)
(* Specification of a pipeline buffer between two units: the producer      *)
(* writes the tail slots, the consumer empties head slots, either may set  *)
(* or clear the stall flag, a flush fills the buffer, and the core ticks   *)
(* the buffer.  hist records the buffer as the last tick found it.         *)
(***************************************************************************)
BufferValues == 0..MaxBufferValue

\* No tick has been observed since the last other operation.
NoTick == [ticked |-> FALSE]

InitBuffer ==
  /\ cfg \in LSQConfigs
  /\ insn = [i \in LSQIds |-> NoInsn]
  /\ mmu = EmptyMMU
  /\ port = EmptyBag
  /\ mem = [a \in MemAddrs |-> 0]
  /\ issued = [LD |-> 0, STR |-> 0]
  /\ nextSeq = 0
  /\ faultCalls = 0
  /\ err = FALSE
  /\ lsq = EmptyLSQ("INORDER")
  /\ core = EmptyCore
  /\ \E width \in 1..MaxBufferWidth : pipe = PipelineBuffer(width, 0)
  /\ rob = EmptyROB
  /\ rat = EmptyRAT
  /\ diu = NoDIU
  /\ hist = [ticks |-> 0, last |-> NoTick]

\* The producer writes a value to a tail slot.
BufferWriteTail ==
  /\ \E k \in 1..pipe.width, value \in BufferValues :
       pipe' = [pipe EXCEPT !.buffer[tailOffset(pipe) + k] = value]
  /\ hist' = [hist EXCEPT !.last = NoTick]
  /\ UNCHANGED <<diu, cfg, rob, rat, insn, mmu, port, mem, issued, nextSeq, faultCalls, err,
                 lsq, core>>

\* The consumer takes the value of a head slot and leaves the slot empty.
BufferTakeHead ==
  /\ \E k \in 1..pipe.width :
       /\ getHeadSlots(pipe)[k] # pipe.emptyVal
       /\ pipe' = [pipe EXCEPT !.buffer[headOffset(pipe) + k] = pipe.emptyVal]
  /\ hist' = [hist EXCEPT !.last = NoTick]
  /\ UNCHANGED <<diu, cfg, rob, rat, insn, mmu, port, mem, issued, nextSeq, faultCalls, err,
                 lsq, core>>

\* A unit sets or clears the stall flag.
BufferStall ==
  /\ \E stalled \in BOOLEAN :
       /\ stalled # pipe.isStalled
       /\ pipe' = stall(pipe, stalled)
  /\ hist' = [hist EXCEPT !.last = NoTick]
  /\ UNCHANGED <<diu, cfg, rob, rat, insn, mmu, port, mem, issued, nextSeq, faultCalls, err,
                 lsq, core>>

\* A flush fills the buffer with the empty value.
BufferFill ==
  /\ ~isEmpty(pipe)
  /\ pipe' = fill(pipe, pipe.emptyVal)
  /\ hist' = [hist EXCEPT !.last = NoTick]
  /\ UNCHANGED <<diu, cfg, rob, rat, insn, mmu, port, mem, issued, nextSeq, faultCalls, err,
                 lsq, core>>

\* The core ticks the buffer.
BufferTick ==
  /\ hist.ticks < MaxBufferTicks
  /\ pipe' = tick(pipe)
  /\ hist' = [ticks |-> hist.ticks + 1, last |-> [ticked |-> TRUE, before |-> pipe]]
  /\ UNCHANGED <<diu, cfg, rob, rat, insn, mmu, port, mem, issued, nextSeq, faultCalls, err,
                 lsq, core>>

NextBuffer ==
  \/ BufferWriteTail
  \/ BufferTakeHead
  \/ BufferStall
  \/ BufferFill
  \/ BufferTick

SpecBuffer == InitBuffer /\ [][NextBuffer]_vars

(***************************************************************************)
(* Properties of the pipeline buffer, checked under SpecBuffer.            *)
(***************************************************************************)
\* C17: when the buffer is not stalled at a tick, the values in the tail
\* slots before the tick are the values in the head slots after it, slot by
\* slot.
C17_TailBecomesHead ==
  (hist.last.ticked /\ ~hist.last.before.isStalled) =>
    \A k \in 1..pipe.width : getHeadSlots(pipe)[k] = getTailSlots(hist.last.before)[k]

\* A tick of a buffer that was not stalled, whose tail slots held different
\* values, none of them the value of the head slot beside it.
C17_Witness ==
  /\ hist.last.ticked
  /\ ~hist.last.before.isStalled
  /\ pipe.width = MaxBufferWidth
  /\ getHeadSlots(pipe)[1] # getHeadSlots(pipe)[2]
  /\ \A k \in 1..pipe.width :
       /\ getTailSlots(hist.last.before)[k] # pipe.emptyVal
       /\ getTailSlots(hist.last.before)[k] # getHeadSlots(hist.last.before)[k]

\* C18: a tick of a stalled buffer changes nothing: the head row and the
\* tail row are the rows they were, with the contents they had.
C18_StalledTickChangesNothing ==
  (hist.last.ticked /\ hist.last.before.isStalled) =>
    /\ headOffset(pipe) = headOffset(hist.last.before)
    /\ tailOffset(pipe) = tailOffset(hist.last.before)
    /\ getHeadSlots(pipe) = getHeadSlots(hist.last.before)
    /\ getTailSlots(pipe) = getTailSlots(hist.last.before)
    /\ pipe = hist.last.before

\* A tick of a stalled buffer whose head and tail rows hold different values.
C18_Witness ==
  /\ hist.last.ticked
  /\ hist.last.before.isStalled
  /\ pipe.isStalled
  /\ \E k \in 1..pipe.width :
       /\ getHeadSlots(pipe)[k] # getTailSlots(pipe)[k]
       /\ getTailSlots(pipe)[k] # pipe.emptyVal

(***************************************************************************)
(* Properties of the MMU, checked under SpecMMU.                           *)
(***************************************************************************)

\* C8: in one MMU::tick the sizes of the load packets issued sum to at most
\* loadBandwidth and those of the store packets issued to at most
\* storeBandwidth.
C8_BandwidthPerTick ==
  /\ issued.LD <= cfg.loadBandwidth
  /\ issued.STR <= cfg.storeBandwidth

\* A tick used the whole load bandwidth and left a packet of the load at the
\* front waiting for the next cycle.
C8_Witness ==
  /\ issued.LD = cfg.loadBandwidth
  /\ Len(mmu.ld) > 0
  /\ Len(mmu.ld[1]) > 0

\* C9: the loads pending in the MMU never outnumber loadRequestLimit and
\* the stores pending never outnumber storeRequestLimit.
C9_PerTypeRequestLimits ==
  /\ Len(mmu.ld) <= cfg.loadRequestLimit
  /\ Len(mmu.str) <= cfg.storeRequestLimit

\* The loads have reached their limit while the combined limit has room, so
\* that the next requestRead is refused by the load limit alone.
C9_Witness ==
  /\ ~cfg.exclusiveRequests
  /\ Len(mmu.ld) = cfg.loadRequestLimit
  /\ Len(mmu.ld) + Len(mmu.str) < cfg.requestLimit
  /\ ~readAdmitted(mmu)

\* C10: in every configuration, exclusive or not, the loads and stores
\* pending in the MMU together never outnumber requestLimit.
C10_CombinedRequestLimit ==
  Len(mmu.ld) + Len(mmu.str) <= cfg.requestLimit

\* C11: with exclusive access the MMU never holds pending loads and pending
\* stores at the same time, and a tick issues packets of one type only.
C11_ExclusiveOneType ==
  cfg.exclusiveRequests =>
    /\ Len(mmu.ld) = 0 \/ Len(mmu.str) = 0
    /\ issued.LD = 0 \/ issued.STR = 0

\* With exclusive access, a tick has issued part of a load that is still
\* pending, and a store is refused although the store limit has room.
C11_Witness ==
  /\ cfg.exclusiveRequests
  /\ Len(mmu.ld) > 0
  /\ issued.LD > 0
  /\ Len(mmu.str) < cfg.storeRequestLimit
  /\ ~writeAdmitted(mmu)

\* The splits of target k of load id that met a data abort.
abortedSplits(id, k) == {a \in hist.aborted : a.seq = id /\ a.order = k - 1}

\* The loads the driver has requested.
requestedLoadIds == {id \in 0..(nextSeq - 1) : insn[id].kind = "load"}

\* C15: if the translation of any split packet of a target of a load meets a
\* data abort, be it the first split or a later one, then once the load has
\* its data supplyData has been called exactly once for each address, the
\* value of that address is empty (no partly merged payload), and
\* hasAllData() is true.
C15_FaultySplitSuppliesEmptyOnce ==
  \A id \in requestedLoadIds :
    IF id \in DOMAIN mmu.requestedLoads
    THEN insn[id].supplyCalls = 0
    ELSE /\ hasAllData(insn[id])
         /\ insn[id].supplyCalls = Len(insn[id].addrs)
         /\ \A k \in 1..Len(insn[id].addrs) :
              abortedSplits(id, k) # {} => insn[id].data[k] = <<>>

\* A load of a target split in two has its data after the first split was
\* answered by the memory and the second met a data abort.
C15_Witness ==
  \E id \in requestedLoadIds :
    /\ id \notin DOMAIN mmu.requestedLoads
    /\ Len(createReadMemPackets(insn[id].addrs[1], id, 0)) = 2
    /\ abortedSplits(id, 1) = {[seq |-> id, order |-> 0, split |-> 1]}
    /\ insn[id].data = <<(<<>>)>>
    /\ insn[id].supplyCalls = 1


\* Packets a and b are the same request.
sameRequest(a, b) ==
  /\ a.type = b.type
  /\ a.insnSeqId = b.insnSeqId
  /\ a.packetOrderId = b.packetOrderId
  /\ a.packetSplitId = b.packetSplitId

\* Number of copies of request pkt the memory holds in port p.
copiesSent(p, pkt) ==
  LET held == {x \in BagToSet(p) : sameRequest(x, pkt)}
  IN IF held = {} THEN 0
     ELSE LET x == CHOOSE y \in held : TRUE
          IN IF Cardinality(held) = 1 THEN CopiesIn(x, p) ELSE 2

\* The response to read request pkt has been delivered to MMU m: it sits in
\* readResponses_, or the load has had its data and left the maps.
delivered(m, pkt) ==
  \/ pkt.insnSeqId \notin DOMAIN m.requestedLoads
  \/ m.readResponses[pkt.insnSeqId][pkt.packetOrderId][pkt.packetSplitId + 1] # NoPacket

\* Number of packets parked in pendingRequests_.
RECURSIVE parkedCount(_)
parkedCount(pending) ==
  IF DOMAIN pending = {} THEN 0
  ELSE LET v == CHOOSE x \in DOMAIN pending : TRUE
       IN Len(pending[v]) + parkedCount(MapErase(pending, v))

RECURSIVE queuedCount(_)
queuedCount(queue) ==
  IF Len(queue) = 0 THEN 0 ELSE Len(queue[1]) + queuedCount(Tail(queue))

\* Every packet parked under an address has that address, is parked once, is
\* not held by the memory and has not been delivered; every packet that has
\* been requested and not delivered is in exactly one place.
parkedNotSentNorDelivered ==
  /\ \A v \in DOMAIN mmu.pendingRequests :
       LET q == mmu.pendingRequests[v]
       IN /\ Len(q) > 0
          /\ \A j \in 1..Len(q) :
               /\ q[j].vaddr = v
               /\ ~q[j].faulty
               /\ copiesSent(port, q[j]) = 0
               /\ q[j].type = "read" => ~delivered(mmu, q[j])
               /\ \A k \in 1..Len(q) : k # j => ~sameRequest(q[j], q[k])
  /\ mmu.pendingDataRequests =
       queuedCount(mmu.ld) + queuedCount(mmu.str) + BagCardinality(port)
         + parkedCount(mmu.pendingRequests)

\* A step that takes address v out of pendingRequests_ re-issues every packet
\* parked under v exactly once: each is handed to the memory once or, if its
\* translation is a data abort, delivered back once; the packets parked
\* under other addresses stay parked.
resumedExactlyOnce(v) ==
  LET q == mmu.pendingRequests[v]
  IN /\ \A u \in DOMAIN mmu.pendingRequests \ {v} :
          /\ u \in DOMAIN mmu'.pendingRequests
          /\ mmu'.pendingRequests[u] = mmu.pendingRequests[u]
     /\ \A j \in 1..Len(q) :
          /\ copiesSent(port', q[j]) \in {0, 1}
          /\ q[j].type = "read" =>
               (copiesSent(port', q[j]) = 1) # delivered(mmu', q[j])
     /\ (BagCardinality(port') - BagCardinality(port))
          + (mmu.pendingDataRequests - mmu'.pendingDataRequests) = Len(q)

\* C16: a packet whose translation is PENDING is parked under its address,
\* neither sent to the memory nor delivered back; supplyDelayedTranslation
\* for that address re-issues every packet parked under it exactly once and
\* leaves no entry for the address; and, the translator resolving every
\* pending translation, every parked request is eventually resumed.
C16_ParkedUntilTranslationSupplied ==
  /\ []parkedNotSentNorDelivered
  /\ [][\A v \in DOMAIN mmu.pendingRequests :
          /\ MMUSupplyDelayedTranslation => DOMAIN mmu'.pendingRequests # DOMAIN mmu.pendingRequests
          /\ v \notin DOMAIN mmu'.pendingRequests => resumedExactlyOnce(v)]_vars
  /\ (DOMAIN mmu.pendingRequests # {}) ~> (DOMAIN mmu.pendingRequests = {})

\* The two splits of the only load, issued in one cycle, were parked under
\* their addresses; the translation of one has been supplied and that split
\* is with the memory, the other is still parked.
C16_Witness ==
  \E id \in requestedLoadIds :
    /\ nextSeq = 1
    /\ cfg.loadBandwidth = 2
    /\ id \in DOMAIN mmu.requestedLoads
    /\ mmu.requestedLoads[id] = 2
    /\ Cardinality(DOMAIN mmu.pendingRequests) = 1
    /\ \E pkt \in BagToSet(port) : pkt.type = "read" /\ pkt.insnSeqId = id
    /\ \E v \in DOMAIN mmu.pendingRequests :
         \E j \in 1..Len(mmu.pendingRequests[v]) :
           mmu.pendingRequests[v][j].insnSeqId = id
    /\ Len(mmu.ld) = 0
    /\ faultCalls = MaxFaultCalls

(***************************************************************************)
(* Properties of the splitting of a target, checked under SpecSplit.       *)
(***************************************************************************)
\* The sizes of the packets from the k-th on, added up.
RECURSIVE sizesFrom(_, _)
sizesFrom(pkts, k) ==
  IF k > Len(pkts) THEN 0 ELSE pkts[k].size + sizesFrom(pkts, k + 1)

\* The packets partition the target on cache line boundaries.
partitions(target, pkts) ==
  /\ Len(pkts) >= 1
  /\ \A k \in 1..Len(pkts) :
       /\ pkts[k].size >= 1
       /\ pkts[k].size <= cacheLineWidth
       /\ downAlign(pkts[k].vaddr, cacheLineWidth)
            = downAlign(pkts[k].vaddr + pkts[k].size - 1, cacheLineWidth)
       /\ pkts[k].packetSplitId = k - 1
  /\ pkts[1].vaddr = target.vaddr
  /\ \A k \in 1..(Len(pkts) - 1) : pkts[k + 1].vaddr = pkts[k].vaddr + pkts[k].size
  /\ sizesFrom(pkts, 1) = target.size

\* C12: the packets created for a write and for a read of a target
\* partition it: each lies within one cache line, they are contiguous from
\* the target's address, their sizes add up to the target's, and their
\* split ids count up from 0 in address order.
C12_PacketsPartitionTarget ==
  /\ pipe.phase # "input" => partitions(hist.target, hist.writePkts)
  /\ pipe.phase = "load" => partitions(hist.target, hist.readPkts)

\* A read split in three, the first packet shorter than a cache line.
C12_Witness ==
  /\ pipe.phase = "load"
  /\ Len(hist.readPkts) >= 3
  /\ Len(hist.writePkts) >= 3
  /\ hist.readPkts[1].size < cacheLineWidth

\* The load has been supplied its data.
splitLoadSupplied == pipe.phase = "load" /\ 1 \notin DOMAIN mmu.requestedLoads

\* C13: the value supplied to a load of the target that was written equals
\* the payload written, byte for byte.
C13_ReadBackEqualsPayload ==
  splitLoadSupplied => insn[1].data = <<hist.data>>

\* The load was supplied the payload from three packets of a split.
C13_Witness ==
  /\ splitLoadSupplied
  /\ Len(hist.readPkts) >= 3
  /\ Len(hist.data) >= 3
  /\ insn[1].data = <<hist.data>>

\* The loads requested so far.
splitLoads == {id \in 1..2 : insn[id] # NoInsn}

\* The packets of load id waiting in the MMU or held by the memory.
outstandingPackets(id) ==
  {pkt \in BagToSet(port) : pkt.type = "read" /\ pkt.insnSeqId = id}
    \cup UNION {{q[j] : j \in {x \in 1..Len(q) : q[x].insnSeqId = id}} :
                  q \in Range(mmu.ld)}

\* The bytes the memory holds for a target.
memoryAt(target) == [j \in 1..target.size |-> mem[target.vaddr + j - 1]]

\* C14: whatever the order in which the responses to the packets of a load
\* arrive, and however they interleave with those of another load, the load
\* has no data while a packet of it is outstanding; once the last packet has
\* arrived supplyData has been called exactly once per address, the value of
\* each address is the bytes of its target in address order (the payloads
\* joined in (orderId, splitId) order), and requestedLoads_ and
\* readResponses_ hold no entry for the load.
C14_SuppliedOnceOnLastPacket ==
  \A id \in splitLoads :
    IF id \in DOMAIN mmu.requestedLoads
    THEN /\ mmu.requestedLoads[id] = Cardinality(outstandingPackets(id))
         /\ mmu.requestedLoads[id] > 0
         /\ id \in DOMAIN mmu.readResponses
         /\ insn[id].supplyCalls = 0
         /\ \A k \in 1..Len(insn[id].data) : insn[id].data[k] = Unsupplied
    ELSE /\ outstandingPackets(id) = {}
         /\ id \notin DOMAIN mmu.readResponses
         /\ insn[id].supplyCalls = Len(insn[id].addrs)
         /\ \A k \in 1..Len(insn[id].addrs) :
              insn[id].data[k] = memoryAt(insn[id].addrs[k])

\* The load of two targets has its data after responses that arrived out of
\* order, its second target split, while the first load still waits for some
\* of its packets.
C14_Witness ==
  /\ 2 \in splitLoads
  /\ 2 \notin DOMAIN mmu.requestedLoads
  /\ 2 \in hist.outOfOrder
  /\ Len(hist.readPkts) > 1
  /\ hasAllData(insn[2])
  /\ insn[2].data[1] # insn[2].data[2]
  /\ 1 \in DOMAIN mmu.requestedLoads
  /\ mmu.requestedLoads[1] < Len(hist.readPkts)

(***************************************************************************)
(* Properties of the LSQ under the in-order core, checked under SpecLSQ.   *)
(***************************************************************************)
\* The byte a retired load holds for address a.
byteRead(l, a) == insn[l].data[1][a - insn[l].addrs[1].vaddr + 1]

retiredLoads == {l \in core.retired : insn[l].kind = "load"}

retiredStores == {s \in core.retired : insn[s].kind = "store"}

\* The loads whose memory request has been issued: registered in
\* requestedLoads_, waiting in requestLoadQueue_, or pending in the MMU.
issuedLoads ==
  lsq.requestedLoads
    \cup UNION {Range(lsq.requestLoadQueue[c]) : c \in DOMAIN lsq.requestLoadQueue}
    \cup DOMAIN mmu.requestedLoads

\* The stores that have not been committed by commitStore.
uncommittedStores == {lsq.storeQueue[k].id : k \in 1..Len(lsq.storeQueue)}

\* C2: for committed store S before committed load L in program order, on
\* every byte both access L holds the value of S or of a later store (a store
\* writes its sequence id + 1 to every byte, memory starts at 0).
C2_LoadObservesOlderStore ==
  \A l \in retiredLoads, st \in retiredStores :
    st < l => \A a \in sharedBytes(insn[st].addrs, insn[l].addrs) : byteRead(l, a) > st

\* C3, as stated: no load is issued while an older store that has not been
\* committed overlaps it.
C3_NoIssueBeforeOlderStoreCommits ==
  \A l \in issuedLoads, st \in uncommittedStores :
    st < l => sharedBytes(insn[st].addrs, insn[l].addrs) = {}

\* C3, amended: a load is not issued while an older store is uncommitted
\* whose generated addresses overlapped the load's when startLoad ran.
C3_NoIssueBeforeKnownStoreCommits ==
  \A l \in issuedLoads :
    l \in DOMAIN hist.blockers => hist.blockers[l] \cap uncommittedStores = {}

\* A load that startLoad delayed on an older store has been issued after the
\* store was committed.
C3_Witness ==
  \E l \in issuedLoads :
    /\ l \in DOMAIN hist.blockers
    /\ hist.blockers[l] # {}
    /\ hist.blockers[l] \subseteq retiredStores

\* The loads delayed in conflictionMap_, and those waiting in
\* requestLoadQueue_ for cycle c.
parkedUnder(st) == Range(lsq.conflictionMap[st])

scheduledAt(q, c) == IF c \in DOMAIN q THEN Range(q[c]) ELSE {}

\* This step retires store st, whose retirement calls commitStore(st).
commitsStore(st) ==
  /\ st \in core'.retired \ core.retired
  /\ insn[st].kind = "store"
  /\ ~insn[st].exception

oldest(S) == CHOOSE x \in S : \A y \in S : x <= y

\* The orders in which the loads of set S may be visited.
visitOrders(S) ==
  {order \in [1..Cardinality(S) -> S] :
     \A j, k \in 1..Cardinality(S) : j # k => order[j] # order[k]}

\* The loads in requestedLoads_ at the last commitStore that overlap its
\* store.
overlappingScanned ==
  {l \in hist.lastCommit.scanned :
     anyOverlap(insn[hist.lastCommit.store].addrs, insn[l].addrs)}

\* C20: when commitStore(S) has returned true, violatingLoad_ is the load of
\* smallest sequence id among the loads that were in requestedLoads_ and
\* overlap S, and the loop of commitStore yields that load in whatever order
\* it visits requestedLoads_.
C20_OldestViolatingLoad ==
  hist.lastCommit.ret =>
    /\ overlappingScanned # {}
    /\ hist.lastCommit.violating = oldest(overlappingScanned)
    /\ \A order \in visitOrders(hist.lastCommit.scanned) :
         scanInOrder([insn |-> insn], hist.lastCommit.store, order, 1, NoId)
           = oldest(overlappingScanned)

\* commitStore has returned true with two loads in requestedLoads_ that
\* overlap the store.
C20_Witness ==
  /\ hist.lastCommit.ret
  /\ Cardinality(overlappingScanned) >= 2
  /\ hist.lastCommit.violating = oldest(overlappingScanned)

\* The first position of x in sequence s.
rankIn(s, x) == CHOOSE k \in 1..Len(s) : s[k] = x /\ \A j \in 1..(k - 1) : s[j] # x

\* The loads startLoad was called for before load l.
startedBefore(l) ==
  {hist.startOrder[k] : k \in 1..(rankIn(hist.startOrder, l) - 1)}

\* The number of entries of completedRequests_ for instruction id.
reservations(id) ==
  Cardinality({k \in 1..Len(lsq.completedRequests) : lsq.completedRequests[k] = id})

\* No load was written to a completion slot twice, the loads were written in
\* the order of their startLoad calls and had executed, and a started load
\* that is not flushed has been written to a slot or holds one entry of
\* completedRequests_, never both.
completedInStartOrder ==
  LET d == hist.delivered
  IN /\ \A j, k \in 1..Len(d) : j # k => d[j] # d[k]
     /\ \A k \in 1..Len(d) : d[k] \in Range(hist.startOrder) /\ insn[d[k]].executed
     /\ \A j, k \in 1..Len(d) :
          j < k => rankIn(hist.startOrder, d[j]) < rankIn(hist.startOrder, d[k])
     /\ \A l \in Range(hist.startOrder) :
          ~insn[l].flushed =>
            reservations(l) = (IF l \in Range(d) THEN 0 ELSE 1)

\* C21: with completion in order, the loads reach the completion slots in
\* the order of their startLoad calls, whatever order their data came back
\* in: a load is written to a slot only when every load started before it
\* has been written to one or was flushed, and a started load that is not
\* flushed is written once, waiting in completedRequests_ until then.
C21_InOrderCompletion ==
  /\ []completedInStartOrder
  /\ [][\A k \in (Len(hist.delivered) + 1)..Len(hist'.delivered) :
          \A l \in startedBefore(hist'.delivered[k]) :
            \/ insn[l].flushed
            \/ \E j \in 1..(k - 1) : hist'.delivered[j] = l]_vars

\* The data of the load started second came back first: that load has
\* executed in a tick of the LSQ and waits behind the load started first,
\* which has not executed.
C21_Witness ==
  /\ Len(hist.startOrder) >= 2
  /\ Len(lsq.completedRequests) >= 2
  /\ lsq.completedRequests[1] = hist.startOrder[1]
  /\ lsq.completedRequests[2] = hist.startOrder[2]
  /\ ~insn[hist.startOrder[1]].flushed
  /\ ~insn[hist.startOrder[1]].executed
  /\ ~insn[hist.startOrder[2]].flushed
  /\ insn[hist.startOrder[2]].executed
  /\ hist.delivered = <<>>

\* The instructions marked flushed in world w.
flushedIn(w) ==
  {id \in DOMAIN w.insn : w.insn[id].kind # "none" /\ w.insn[id].flushed}

\* The instructions held in the vectors of map q.
held(q) == UNION {Range(q[c]) : c \in DOMAIN q}

\* The instructions the structures of the LSQ of world w refer to.
inQueues(w) ==
  Range(w.lsq.loadQueue)
    \cup {w.lsq.storeQueue[k].id : k \in 1..Len(w.lsq.storeQueue)}
    \cup w.lsq.requestedLoads
    \cup DOMAIN w.lsq.conflictionMap \cup held(w.lsq.conflictionMap)
    \cup held(w.lsq.requestLoadQueue) \cup held(w.lsq.requestStoreQueue)

\* The points a flush may be given: everything in flight behind the point
\* is marked flushed.
FlushPoints == -1..(nextSeq - 1)

\* The LSQ of world after is the LSQ of world before without the flushed
\* instructions: what is not flushed is where it was, in the same order.
purgedOf(before, after) ==
  LET gone == flushedIn(before)
      kept(id) == id \notin gone
      b == before.lsq
      a == after.lsq
  IN /\ inQueues(after) \cap gone = {}
     /\ a.loadQueue = SelectSeq(b.loadQueue, kept)
     /\ a.storeQueue = SelectSeq(b.storeQueue, LAMBDA e : kept(e.id))
     /\ a.requestedLoads = b.requestedLoads \ gone
     /\ DOMAIN a.conflictionMap = DOMAIN b.conflictionMap \ gone
     /\ \A st \in DOMAIN a.conflictionMap :
          a.conflictionMap[st] = SelectSeq(b.conflictionMap[st], kept)
     /\ \A st \in DOMAIN b.conflictionMap \cap gone :
          Range(b.conflictionMap[st]) \cap held(a.conflictionMap) = {}
     /\ DOMAIN a.requestLoadQueue \subseteq DOMAIN b.requestLoadQueue
     /\ \A c \in DOMAIN b.requestLoadQueue :
          SelectSeq(b.requestLoadQueue[c], kept)
            = (IF c \in DOMAIN a.requestLoadQueue THEN a.requestLoadQueue[c] ELSE <<>>)
     /\ a.requestStoreQueue = b.requestStoreQueue

\* C22: purgeFlushed leaves no flushed instruction in the load queue, the
\* store queue, conflictionMap_, requestLoadQueue_, requestStoreQueue_ or
\* requestedLoads_, the loads delayed under a flushed store are gone from
\* conflictionMap_, and what is not flushed keeps its place and order; this
\* holds for a flush at any point in any state of the pipeline, and the
\* structures hold no flushed instruction after any step.
C22_PurgeRemovesFlushed ==
  /\ inQueues(LSQWorld) \cap flushedIn(LSQWorld) = {}
  /\ \A point \in FlushPoints :
       With(markFlushed(LSQWorld, point), LAMBDA marked :
         purgedOf(marked, purgeFlushed(marked)))

\* A flush point behind which a store and the load delayed under it are
\* flushed while an older instruction stays in its queue.
C22_Witness ==
  \E point \in FlushPoints :
    With(markFlushed(LSQWorld, point), LAMBDA marked :
      /\ \E st \in DOMAIN lsq.conflictionMap :
           /\ marked.insn[st].flushed
           /\ Len(lsq.conflictionMap[st]) >= 1
      /\ purgeFlushed(marked).lsq # marked.lsq
      /\ Len(purgeFlushed(marked).lsq.loadQueue)
           + Len(purgeFlushed(marked).lsq.storeQueue) >= 1)

C5_ViolationFlushedInSameTick ==
  /\ pipe.phase = "mmu" => core.loadViolations = hist.detected
  /\ hist.handled.load # NoId =>
       /\ hist.handled.flushedTo # NoFlush
       /\ hist.handled.flushedTo <= hist.handled.load - 1
       /\ hist.handled.flushedTo = hist.handled.load - 1 =>
            hist.handled.pc = getInstructionAddress(hist.handled.load)

(***************************************************************************)
(* Properties of the reorder buffer and the register alias table, checked  *)
(* under SpecROB.                                                          *)
(***************************************************************************)
\* A sequence of sequence ids in program order.
ascending(s) == \A i, j \in 1..Len(s) : i < j => s[i] < s[j]

Reverse(s) == [k \in 1..Len(s) |-> s[Len(s) + 1 - k]]

\* The registers a log says were handed to operation op of the register
\* alias table.
RECURSIVE registersIn(_, _)
registersIn(log, op) ==
  IF Len(log) = 0 THEN <<>>
  ELSE (IF log[1].op = op THEN <<log[1].reg>> ELSE <<>>) \o registersIn(Tail(log), op)

\* The destination registers of the instructions ids, in that order.
RECURSIVE destinationsOf(_)
destinationsOf(ids) ==
  IF Len(ids) = 0 THEN <<>> ELSE insn[ids[1]].dests \o destinationsOf(Tail(ids))

\* C1: instructions leave the reorder buffer through commit in program
\* order and never while an older instruction is in the buffer; a call of
\* commit removes a prefix of the buffer, of at most maxCommitSize
\* instructions, all of them commit-ready, and returns their number.
C1_CommitInOrderFromHead ==
  /\ ascending(hist.committed)
  /\ \A k \in 1..Len(hist.committed), b \in Range(rob.buffer) : hist.committed[k] < b
  /\ hist.lastCommit.called =>
       LET c == hist.lastCommit
           popped == removedIn(c.log, "pop")
       IN /\ Len(popped) <= c.maxCommitSize
          /\ c.ret = Len(popped)
          /\ Len(popped) <= Len(c.before)
          /\ popped = SubSeq(c.before, 1, Len(popped))
          /\ c.after = SubSeq(c.before, Len(popped) + 1, Len(c.before))
          /\ \A k \in 1..Len(popped) : popped[k] \in c.ready

\* A call of commit that stopped before maxCommitSize at an instruction
\* that is not commit-ready, with a younger commit-ready one behind it.
C1_Witness ==
  /\ hist.lastCommit.called
  /\ hist.lastCommit.ret >= 1
  /\ hist.lastCommit.ret < hist.lastCommit.maxCommitSize
  /\ Len(hist.lastCommit.after) >= 2
  /\ hist.lastCommit.after[1] \notin hist.lastCommit.ready
  /\ hist.lastCommit.after[2] \in hist.lastCommit.ready

\* C6: after flush(afterSeqId) the buffer holds the instructions with id at
\* most afterSeqId, in their order; the others were removed from the
\* youngest to the oldest, are marked flushed, and their destination
\* registers were rewound in that order.
C6_FlushRemovesYoungerYoungestFirst ==
  hist.lastFlush.called =>
    LET f == hist.lastFlush
        removed == removedIn(f.log, "flush")
        younger == SelectSeq(f.before, LAMBDA id : id > f.afterSeqId)
        older == SelectSeq(f.before, LAMBDA id : id <= f.afterSeqId)
    IN /\ rob.buffer = f.after
       /\ \A k \in 1..Len(rob.buffer) : rob.buffer[k] <= f.afterSeqId
       /\ f.after = older
       /\ removed = Reverse(younger)
       /\ \A k \in 1..Len(removed) : insn[removed[k]].flushed
       /\ registersIn(f.log, "rewind") = destinationsOf(removed)

\* A flush that removed two instructions, rewound a register and left an
\* instruction in the buffer.
C6_Witness ==
  /\ hist.lastFlush.called
  /\ Len(removedIn(hist.lastFlush.log, "flush")) >= 2
  /\ Len(registersIn(hist.lastFlush.log, "rewind")) >= 1
  /\ Len(hist.lastFlush.after) >= 1

\* The tags of type t on the free queue, in the mapping and in the history.
freeTags(t) == Range(rat.free[t])

mappedTags(t) == Range(rat.mapping[t])

historyTags(t) == {rat.history[t][k].prior : k \in 1..Len(rat.history[t])}

\* C7: every physical tag of each type is in exactly one of the free queue,
\* the mapping and the history, and in it once.
C7_TagsPartitioned ==
  \A t \in RegTypes :
    /\ freeTags(t) \cup mappedTags(t) \cup historyTags(t) = PhysTags
    /\ freeTags(t) \cap mappedTags(t) = {}
    /\ freeTags(t) \cap historyTags(t) = {}
    /\ mappedTags(t) \cap historyTags(t) = {}
    /\ Cardinality(freeTags(t)) = Len(rat.free[t])
    /\ Cardinality(mappedTags(t)) = Cardinality(ArchTags)
    /\ Cardinality(historyTags(t)) = Len(rat.history[t])

\* A flush has rewound a register after a commit released one, and a rename
\* is still in flight.
C7_Witness ==
  /\ hist.lastFlush.called
  /\ Len(registersIn(hist.lastFlush.log, "rewind")) >= 1
  /\ \E k \in 1..Len(hist.committed) :
       /\ Len(insn[hist.committed[k]].dests) >= 1
       /\ ~insn[hist.committed[k]].exception
  /\ \E t \in RegTypes : Len(rat.history[t]) >= 1


(***************************************************************************)
(* The dispatch/issue unit (lib/pipeline/DispatchIssueUnit).  Its members: *)
(*   scoreboard            register -> ready bit                           *)
(*   dependencyMatrix      register -> list of entries (uop, port,         *)
(*                         operandIndex) waiting for it                    *)
(*   reservationStations   vector of (capacity, currentSize, ports), each  *)
(*                         port with its issuePort and ready queue         *)
(*   portMapping           issue port -> (reservation station, its port)   *)
(*   dispatches            per station, dispatches made in this tick       *)
(*   waitingInstructions   timed wake-ups (tick, entry)                    *)
(*   dependantInstructions entries that wait for the register file         *)
(*   ticks, rsStalls, frontendStalls, backendStalls, portBusyStalls        *)
(* Vectors indexed by a port or station number are functions on 0..n-1.   *)
(* There is one register type; operand indexes count from 1.  A world of   *)
(* the unit is [diu, insn, input, ports, alloc, err]: input is the buffer  *)
(* from rename (head slots, stall flag), ports the issue port buffers      *)
(* (tail slot, stall flag), alloc the port allocator.                      *)
(***************************************************************************)
\* The physical registers: the uop with sequence id n writes register n.
Regs == 0..(MaxDIUInsns - 1)

DIUIds == 0..(MaxDIUInsns - 1)

\* The issue ports.
Ports == 0..1

NoPort == -1

\* input_.getWidth().
inputWidth == 2

\* A uop in the rename-to-dispatch buffer.  supportedPorts and bypass (the
\* latency canForward answers for it as a consumer) are static; port is the
\* issue port allocated to it; released and left count the releases of that
\* port and the decrements of its station's occupancy made for it;
\* forwardedAt, suppliedAt and suppliedBy record when the producer of an
\* operand forwarded, and when and how the operand was supplied.
NewUop(id, operands, supported, bypass, exception) ==
  [kind |-> "uop",
   operandRegisters |-> operands,
   operandReady |-> [k \in 1..Len(operands) |-> FALSE],
   destinationRegisters |-> <<id>>,
   supportedPorts |-> supported,
   bypass |-> bypass,
   exception |-> exception,
   commitReady |-> FALSE,
   flushed |-> FALSE,
   port |-> NoPort,
   released |-> 0,
   left |-> 0,
   forwardedAt |-> [k \in 1..Len(operands) |-> NoId],
   suppliedAt |-> [k \in 1..Len(operands) |-> NoId],
   suppliedBy |-> [k \in 1..Len(operands) |-> "none"]]

\* Instruction::canExecute(): every operand has been supplied.
canExecute(i) == \A k \in 1..Len(i.operandReady) : i.operandReady[k]

\* Instruction::canForward(producerGroup, consumerGroup): the forwarding
\* latency from the producer to the consumer.
canForward(producer, consumer) == consumer.bypass

\* Instruction::supplyOperand(i, value), at the unit's tick `now`.
supplyOperand(w, id, k, how) ==
  [w EXCEPT !.insn[id].operandReady[k] = TRUE,
            !.insn[id].suppliedAt[k] = w.diu.ticks,
            !.insn[id].suppliedBy[k] = how]

\* PortAllocator::allocate(ports), once the allocator has chosen `port`
\* among them, PortAllocator::issued(port) and
\* PortAllocator::deallocate(port): the allocator counts the instructions
\* that hold each port.
allocatePort(w, portId) == [w EXCEPT !.alloc[portId] = @ + 1]

releasePort(w, portId) ==
  [w EXCEPT !.alloc[portId] = IF @ > 0 THEN @ - 1 ELSE @,
            !.err = @ \/ w.alloc[portId] = 0]

\* A vector grown to n elements, the new ones being v (std::vector::resize).
Resize(f, n, v) == [i \in 0..(n - 1) |-> IF i \in DOMAIN f THEN f[i] ELSE v]

\* The loop of the constructor over rsArrangement.
RECURSIVE mapPorts(_, _, _)
mapPorts(unit, rsArrangement, portId) ==
  IF portId >= Len(rsArrangement) THEN unit
  ELSE LET RS == rsArrangement[portId + 1]
           stations == IF Cardinality(DOMAIN unit.reservationStations) < RS[1] + 1
                       THEN Resize(unit.reservationStations, RS[1] + 1,
                                   [capacity |-> 0, currentSize |-> 0, ports |-> <<>>])
                       ELSE unit.reservationStations
           port_index == Cardinality({p \in DOMAIN unit.portMapping :
                                        unit.portMapping[p][1] = RS[1]})
           rsPorts == Resize(stations[RS[1]].ports, port_index + 1,
                             [issuePort |-> 0, ready |-> <<>>])
       IN mapPorts(
            [unit EXCEPT
               !.reservationStations =
                  [stations EXCEPT ![RS[1]] =
                     [@ EXCEPT !.capacity = RS[2],
                               !.ports = [rsPorts EXCEPT ![port_index].issuePort = portId]]],
               !.portMapping = Resize(@, portId + 1, <<RS[1], port_index>>)],
            rsArrangement, portId + 1)

\* DispatchIssueUnit::DispatchIssueUnit(...).
DispatchIssueUnit(rsArrangement, enableBypassLatency, dispatchRate) ==
  With(mapPorts([scoreboard |-> [r \in Regs |-> TRUE],
                 dependencyMatrix |-> [r \in Regs |-> <<>>],
                 reservationStations |-> <<>>,
                 portMapping |-> <<>>,
                 enableBypassLatency |-> enableBypassLatency,
                 dispatchRate |-> dispatchRate,
                 waitingInstructions |-> <<>>,
                 dependantInstructions |-> <<>>,
                 ticks |-> 0,
                 rsStalls |-> 0, frontendStalls |-> 0,
                 backendStalls |-> 0, portBusyStalls |-> 0],
                rsArrangement, 0), LAMBDA unit :
    [scoreboard |-> unit.scoreboard,
     dependencyMatrix |-> unit.dependencyMatrix,
     reservationStations |-> unit.reservationStations,
     portMapping |-> unit.portMapping,
     dispatches |-> [i \in DOMAIN unit.reservationStations |-> 0],
     enableBypassLatency |-> unit.enableBypassLatency,
     dispatchRate |-> unit.dispatchRate,
     waitingInstructions |-> unit.waitingInstructions,
     dependantInstructions |-> unit.dependantInstructions,
     ticks |-> unit.ticks,
     rsStalls |-> unit.rsStalls, frontendStalls |-> unit.frontendStalls,
     backendStalls |-> unit.backendStalls, portBusyStalls |-> unit.portBusyStalls])

\* reservationStations_[rsInfo.first].ports[rsInfo.second].ready
\*   .push_back(uop), rsInfo being portMapping_[port].
pushReady(w, portId, id) ==
  LET rsInfo == w.diu.portMapping[portId]
  IN [w EXCEPT !.diu.reservationStations[rsInfo[1]].ports[rsInfo[2]].ready =
                 Append(@, id)]

\* The first loop of tick: the timed wake-ups due in this tick supply their
\* value.
RECURSIVE wakeWaiting(_, _)
wakeWaiting(w, index) ==
  IF index > Len(w.diu.waitingInstructions) THEN w
  ELSE With(w.diu.waitingInstructions[index], LAMBDA waiting :
       IF waiting.tick = w.diu.ticks
       THEN With(supplyOperand(w, waiting.entry.uop, waiting.entry.operandIndex, "timed"),
                 LAMBDA w1 :
            With(IF canExecute(w1.insn[waiting.entry.uop])
                 THEN pushReady(w1, waiting.entry.port, waiting.entry.uop)
                 ELSE w1, LAMBDA w2 :
            With([w2 EXCEPT !.diu.waitingInstructions = RemoveAt(@, index)], LAMBDA w3 :
              wakeWaiting(w3, index))))
       ELSE wakeWaiting(w, index + 1))

\* The second loop of tick: the entries that wait for the register file are
\* supplied from it once the scoreboard says their register is ready.  An
\* entry whose uop was moved to a ready queue and that stays in the list
\* holds no uop any more: err.
RECURSIVE scanDependants(_, _)
scanDependants(w, index) ==
  IF index > Len(w.diu.dependantInstructions) THEN w
  ELSE With(w.diu.dependantInstructions[index], LAMBDA entry :
       With(w.diu.scoreboard[w.insn[entry.uop].operandRegisters[entry.operandIndex]],
            LAMBDA supplied :
       With(IF supplied THEN supplyOperand(w, entry.uop, entry.operandIndex, "registerFile")
            ELSE w, LAMBDA w1 :
       With(IF canExecute(w1.insn[entry.uop])
            THEN [pushReady(w1, entry.port, entry.uop) EXCEPT !.err = @ \/ ~supplied]
            ELSE w1, LAMBDA w2 :
         IF supplied
         THEN With([w2 EXCEPT !.diu.dependantInstructions = RemoveAt(@, index)],
                   LAMBDA w3 : scanDependants(w3, index))
         ELSE scanDependants(w2, index + 1)))))

\* The register read of a dispatch: the operands not yet supplied are read
\* from the register file if the scoreboard says so, and registered in the
\* dependency matrix otherwise.  [w, ready].
RECURSIVE readRegisters(_, _, _, _, _)
readRegisters(w, id, portId, k, ready) ==
  IF k > Len(w.insn[id].operandRegisters) THEN [w |-> w, ready |-> ready]
  ELSE LET reg == w.insn[id].operandRegisters[k]
       IN IF w.insn[id].operandReady[k] THEN readRegisters(w, id, portId, k + 1, ready)
          ELSE IF w.diu.scoreboard[reg]
          THEN With(supplyOperand(w, id, k, "dispatch"), LAMBDA w1 :
                 readRegisters(w1, id, portId, k + 1, ready))
          ELSE With([w EXCEPT !.diu.dependencyMatrix[reg] =
                       Append(@, [uop |-> id, port |-> portId, operandIndex |-> k])],
                    LAMBDA w1 : readRegisters(w1, id, portId, k + 1, FALSE))

\* A dispatch loop that takes no notice of the occupancy of the station.
RECURSIVE dispatchSlotsOverCapacity(_, _, _)
dispatchSlotsOverCapacity(w, slot, pick) ==
  IF slot >= inputWidth THEN w
  ELSE LET id == w.input.head[slot]
       IN IF id = NoId THEN dispatchSlotsOverCapacity(w, slot + 1, pick)
          ELSE IF w.insn[id].exception
          THEN With([w EXCEPT !.insn[id].commitReady = TRUE,
                              !.input.head[slot] = NoId], LAMBDA w1 :
                 dispatchSlotsOverCapacity(w1, slot + 1, pick))
          ELSE
          With(pick[slot], LAMBDA portId :
          With(w.diu.portMapping[portId][1], LAMBDA RS_Index :
          With(w.diu.portMapping[portId][2], LAMBDA RS_Port :
          With(allocatePort(w, portId), LAMBDA w0 :
            IF w0.diu.dispatches[RS_Index] = w0.diu.dispatchRate
            THEN [releasePort(w0, portId) EXCEPT !.input.stalled = TRUE,
                                           !.diu.rsStalls = @ + 1]
            ELSE
            With(readRegisters(w0, id, portId, 1, TRUE), LAMBDA r :
            With([r.w EXCEPT
                    !.diu.scoreboard =
                       [reg \in DOMAIN @ |->
                          IF reg \in Range(w.insn[id].destinationRegisters)
                          THEN FALSE ELSE @[reg]],
                    !.diu.dispatches[RS_Index] = @ + 1,
                    !.diu.reservationStations[RS_Index].currentSize = @ + 1,
                    !.insn[id].port = portId], LAMBDA w1 :
            With(IF r.ready
                 THEN [w1 EXCEPT !.diu.reservationStations[RS_Index].ports[RS_Port].ready =
                                   Append(@, id)]
                 ELSE w1, LAMBDA w2 :
            With([w2 EXCEPT !.input.head[slot] = NoId], LAMBDA w3 :
              dispatchSlotsOverCapacity(w3, slot + 1, pick)))))))))

\* The last loop of tick: dispatch from the head slots of the input buffer;
\* pick[slot] is the port the allocator answers for the uop of the slot.
RECURSIVE dispatchSlots(_, _, _)
dispatchSlots(w, slot, pick) ==
  IF slot >= inputWidth THEN w
  ELSE LET id == w.input.head[slot]
       IN IF id = NoId THEN dispatchSlots(w, slot + 1, pick)
          ELSE IF w.insn[id].exception
          THEN With([w EXCEPT !.insn[id].commitReady = TRUE,
                              !.input.head[slot] = NoId], LAMBDA w1 :
                 dispatchSlots(w1, slot + 1, pick))
          ELSE
          With(pick[slot], LAMBDA portId :
          With(w.diu.portMapping[portId][1], LAMBDA RS_Index :
          With(w.diu.portMapping[portId][2], LAMBDA RS_Port :
          With(allocatePort(w, portId), LAMBDA w0 :
            IF \/ w0.diu.reservationStations[RS_Index].currentSize
                    = w0.diu.reservationStations[RS_Index].capacity
               \/ w0.diu.dispatches[RS_Index] = w0.diu.dispatchRate
            THEN [releasePort(w0, portId) EXCEPT !.input.stalled = TRUE,
                                           !.diu.rsStalls = @ + 1]
            ELSE
            With(readRegisters(w0, id, portId, 1, TRUE), LAMBDA r :
            With([r.w EXCEPT
                    !.diu.scoreboard =
                       [reg \in DOMAIN @ |->
                          IF reg \in Range(w.insn[id].destinationRegisters)
                          THEN FALSE ELSE @[reg]],
                    !.diu.dispatches[RS_Index] = @ + 1,
                    !.diu.reservationStations[RS_Index].currentSize = @ + 1,
                    !.insn[id].port = portId], LAMBDA w1 :
            With(IF r.ready
                 THEN [w1 EXCEPT !.diu.reservationStations[RS_Index].ports[RS_Port].ready =
                                   Append(@, id)]
                 ELSE w1, LAMBDA w2 :
            With([w2 EXCEPT !.input.head[slot] = NoId], LAMBDA w3 :
              dispatchSlots(w3, slot + 1, pick)))))))))

\* DispatchIssueUnit::tick().
diuTick(w, pick) ==
  With([w EXCEPT !.input.stalled = FALSE,
                 !.diu.ticks = @ + 1,
                 !.diu.dispatches = [i \in DOMAIN @ |-> 0]], LAMBDA w0 :
  With(wakeWaiting(w0, 1), LAMBDA w1 :
  With(scanDependants(w1, 1), LAMBDA w2 :
    dispatchSlots(w2, 0, pick))))

\* The tail of issue(): a cycle without an issue counts as a backend stall
\* if a station holds an instruction and as a frontend stall otherwise.
countStall(w, count) ==
  IF count # 0 THEN w
  ELSE IF \E i \in DOMAIN w.diu.reservationStations :
            w.diu.reservationStations[i].currentSize # 0
  THEN [w EXCEPT !.diu.backendStalls = @ + 1]
  ELSE [w EXCEPT !.diu.frontendStalls = @ + 1]

\* An issue loop that does not look at the stall flag of the port.
RECURSIVE issuePortsIgnoringStall(_, _, _)
issuePortsIgnoringStall(w, i, count) ==
  IF i \notin DOMAIN w.ports THEN countStall(w, count)
  ELSE LET rsInfo == w.diu.portMapping[i]
           rs == w.diu.reservationStations[rsInfo[1]]
           queue == rs.ports[rsInfo[2]].ready
       IN IF Len(queue) > 0
          THEN With([releasePort(w, i) EXCEPT
                       !.ports[i].tail = queue[1],
                       !.diu.reservationStations[rsInfo[1]].ports[rsInfo[2]].ready = Tail(@),
                       !.diu.reservationStations[rsInfo[1]].currentSize = @ - 1,
                       !.insn[queue[1]].released = @ + 1,
                       !.insn[queue[1]].left = @ + 1,
                       !.err = @ \/ w.alloc[i] = 0 \/ rs.currentSize <= 0], LAMBDA w1 :
                 issuePortsIgnoringStall(w1, i + 1, count + 1))
          ELSE issuePortsIgnoringStall(w, i + 1, count)

\* The loop of issue() over the issue ports, from port i on, `count`
\* instructions having been issued.
RECURSIVE issuePorts(_, _, _)
issuePorts(w, i, count) ==
  IF i \notin DOMAIN w.ports THEN countStall(w, count)
  ELSE LET rsInfo == w.diu.portMapping[i]
           rs == w.diu.reservationStations[rsInfo[1]]
           queue == rs.ports[rsInfo[2]].ready
       IN IF w.ports[i].stalled
          THEN With(IF Len(queue) > 0 THEN [w EXCEPT !.diu.portBusyStalls = @ + 1] ELSE w,
                    LAMBDA w1 : issuePorts(w1, i + 1, count))
          ELSE IF Len(queue) > 0
          THEN With([releasePort(w, i) EXCEPT
                       !.ports[i].tail = queue[1],
                       !.diu.reservationStations[rsInfo[1]].ports[rsInfo[2]].ready = Tail(@),
                       !.diu.reservationStations[rsInfo[1]].currentSize = @ - 1,
                       !.insn[queue[1]].released = @ + 1,
                       !.insn[queue[1]].left = @ + 1,
                       !.err = @ \/ w.alloc[i] = 0 \/ rs.currentSize <= 0], LAMBDA w1 :
                 issuePorts(w1, i + 1, count + 1))
          ELSE issuePorts(w, i + 1, count)

\* DispatchIssueUnit::issue().
diuIssue(w) == issuePorts(w, 0, 0)

\* The inner loop of forwardOperands over the dependents of a register.
RECURSIVE forwardTo(_, _, _)
forwardTo(w, producer, dependents) ==
  IF Len(dependents) = 0 THEN w
  ELSE LET entry == dependents[1]
           forwardLatency == IF w.diu.enableBypassLatency
                             THEN canForward(w.insn[producer], w.insn[entry.uop])
                             ELSE 0
       IN With([w EXCEPT !.insn[entry.uop].forwardedAt[entry.operandIndex] = w.diu.ticks],
               LAMBDA w0 :
          With(IF forwardLatency = 0
               THEN With(supplyOperand(w0, entry.uop, entry.operandIndex, "forward"),
                         LAMBDA w1 :
                      IF canExecute(w1.insn[entry.uop])
                      THEN pushReady(w1, entry.port, entry.uop)
                      ELSE w1)
               ELSE IF forwardLatency = -1
               THEN [w0 EXCEPT !.diu.dependantInstructions = Append(@, entry)]
               ELSE [w0 EXCEPT !.diu.waitingInstructions =
                                 Append(@, [tick |-> w0.diu.ticks + forwardLatency,
                                            entry |-> entry])], LAMBDA w2 :
          With(Tail(dependents), LAMBDA others : forwardTo(w2, producer, others))))

\* The loop of forwardOperands over the destination registers.
RECURSIVE forwardRegisters(_, _, _)
forwardRegisters(w, producer, i) ==
  IF i > Len(w.insn[producer].destinationRegisters) THEN w
  ELSE LET reg == w.insn[producer].destinationRegisters[i]
       IN With([w EXCEPT !.diu.scoreboard[reg] = TRUE], LAMBDA w0 :
          With(forwardTo(w0, producer, w0.diu.dependencyMatrix[reg]), LAMBDA w1 :
          With([w1 EXCEPT !.diu.dependencyMatrix[reg] = <<>>], LAMBDA w2 :
            forwardRegisters(w2, producer, i + 1))))

\* DispatchIssueUnit::forwardOperands(insn).
forwardOperands(w, producer) == forwardRegisters(w, producer, 1)

\* The first loop of purgeFlushed over one ready queue: a flushed uop is
\* erased, its port deallocated and the occupancy of the station decremented.
RECURSIVE purgeReady(_, _, _, _)
purgeReady(w, i, p, k) ==
  LET rs == w.diu.reservationStations[i]
      queue == rs.ports[p].ready
  IN IF k > Len(queue) THEN w
     ELSE IF w.insn[queue[k]].flushed
     THEN With([releasePort(w, rs.ports[p].issuePort) EXCEPT
                  !.diu.reservationStations[i].ports[p].ready = RemoveAt(@, k),
                  !.diu.reservationStations[i].currentSize = @ - 1,
                  !.insn[queue[k]].released = @ + 1,
                  !.insn[queue[k]].left = @ + 1,
                  !.err = @ \/ w.alloc[rs.ports[p].issuePort] = 0 \/ rs.currentSize <= 0],
               LAMBDA w1 : purgeReady(w1, i, p, k))
     ELSE purgeReady(w, i, p, k + 1)

\* The ready queues of the unit, as (station, port of the station).
readyQueues(w) ==
  {<<w.diu.portMapping[q][1], w.diu.portMapping[q][2]>> : q \in DOMAIN w.diu.portMapping}

\* The first loop of purgeFlushed, over the stations and their ports.
RECURSIVE purgeReadyQueues(_, _)
purgeReadyQueues(w, queues) ==
  IF queues = {} THEN w
  ELSE With(CHOOSE q \in queues :
              \A o \in queues : q[1] < o[1] \/ (q[1] = o[1] /\ q[2] <= o[2]), LAMBDA q :
       With(purgeReady(w, q[1], q[2], 1), LAMBDA w1 :
       With(queues \ {q}, LAMBDA others : purgeReadyQueues(w1, others))))

\* The second loop of purgeFlushed over one dependency list: a flushed
\* entry is erased; the first entry met of a uop puts it in flushed_ and
\* deallocates its port.  [w, flushed].
RECURSIVE purgeDependents(_, _, _, _)
purgeDependents(w, flushed, reg, k) ==
  LET list == w.diu.dependencyMatrix[reg]
  IN IF k > Len(list) THEN [w |-> w, flushed |-> flushed]
     ELSE IF w.insn[list[k].uop].flushed
     THEN LET entry == list[k]
              rsIndex == w.diu.portMapping[entry.port][1]
              first == entry.uop \notin flushed[rsIndex]
          IN With(IF first
                  THEN [releasePort(w, entry.port) EXCEPT !.insn[entry.uop].released = @ + 1]
                  ELSE w, LAMBDA w0 :
             With([w0 EXCEPT !.diu.dependencyMatrix[reg] = RemoveAt(@, k)], LAMBDA w1 :
             With([flushed EXCEPT ![rsIndex] = @ \cup {entry.uop}], LAMBDA seen :
               purgeDependents(w1, seen, reg, k))))
     ELSE purgeDependents(w, flushed, reg, k + 1)

\* The second loop of purgeFlushed over the registers.  [w, flushed].
RECURSIVE purgeMatrix(_, _, _)
purgeMatrix(w, flushed, regs) ==
  IF regs = {} THEN [w |-> w, flushed |-> flushed]
  ELSE With(CHOOSE r \in regs : \A o \in regs : r <= o, LAMBDA reg :
       With(purgeDependents(w, flushed, reg, 1), LAMBDA r :
       With(regs \ {reg}, LAMBDA others : purgeMatrix(r.w, r.flushed, others))))

\* DispatchIssueUnit::purgeFlushed().
diuPurgeFlushed(w) ==
  With(purgeReadyQueues(w, readyQueues(w)), LAMBDA w1 :
  With(purgeMatrix(w1, [i \in DOMAIN w1.diu.reservationStations |-> {}], Regs), LAMBDA r :
    [r.w EXCEPT
       !.diu.reservationStations =
          [i \in DOMAIN @ |->
             [@[i] EXCEPT !.currentSize = @ - Cardinality(r.flushed[i])]],
       !.insn = [id \in DOMAIN @ |->
                   IF \E i \in DOMAIN r.flushed : id \in r.flushed[i]
                   THEN [@[id] EXCEPT !.left = @ + 1] ELSE @[id]],
       !.err = @ \/ \E i \in DOMAIN r.flushed :
                      r.w.diu.reservationStations[i].currentSize
                        < Cardinality(r.flushed[i])]))

(***************************************************************************)
(* Specification of the dispatch/issue unit in a core.  In each cycle the   *)
(* unit ticks, the execution units forward the results of the uops they    *)
(* took, the unit issues, and the buffers tick; the core may then flush.   *)
(***************************************************************************)
\* The forwarding latencies tried when the bypass latency is enabled.
Latencies == {-2, -1, 2}

\* Reservation-Stations of the configuration as (station, capacity) per
\* port, with the Dispatch-Rate: one station of two entries behind both
\* ports, or a station of one entry behind each port.
DIUConfigs ==
  {[rsArrangement |-> a[1], dispatchRate |-> a[2],
    enableBypassLatency |-> l # 0, latency |-> l] :
     a \in {<< <<<<0, 2>>, <<0, 2>>>>, 1 >>, << <<<<0, 1>>, <<1, 1>>>>, 2 >>},
     l \in Latencies \cup {0}}

DIUWorld ==
  [diu |-> diu, insn |-> insn, input |-> pipe.input, ports |-> pipe.ports,
   alloc |-> pipe.alloc, err |-> err]

\* The variables of the unit and its buffers take the values of world w, in
\* phase ph of the cycle, with the uops in `executing` in execution.
DIUBecomes(w, ph, executing) ==
  /\ diu' = w.diu
  /\ insn' = w.insn
  /\ err' = w.err
  /\ pipe' = [phase |-> ph, input |-> w.input, ports |-> w.ports, alloc |-> w.alloc,
              executing |-> executing]

InitDIU ==
  /\ cfg \in DIUConfigs
  /\ insn = [i \in DIUIds |-> NoInsn]
  /\ diu = DispatchIssueUnit(cfg.rsArrangement, cfg.enableBypassLatency, cfg.dispatchRate)
  /\ pipe = [phase |-> "issued",
             input |-> [head |-> [slot \in 0..(inputWidth - 1) |-> NoId],
                        stalled |-> FALSE],
             ports |-> [p \in Ports |-> [tail |-> NoId, stalled |-> FALSE]],
             alloc |-> [p \in Ports |-> 0],
             executing |-> {}]
  /\ hist = [flushes |-> 0, pick |-> [slot \in 0..(inputWidth - 1) |-> 0]]
  /\ mmu = EmptyMMU
  /\ port = EmptyBag
  /\ mem = [a \in MemAddrs |-> 0]
  /\ issued = [LD |-> 0, STR |-> 0]
  /\ nextSeq = 0
  /\ faultCalls = 0
  /\ err = FALSE
  /\ lsq = EmptyLSQ("INORDER")
  /\ core = EmptyCore
  /\ rob = EmptyROB
  /\ rat = EmptyRAT

\* The uops rename may hand over with sequence id `id`: their operands are
\* registers written by older uops that were not flushed.
Uops(id, uops) ==
  LET live == {r \in Regs : r < id /\ uops[r].kind = "uop" /\ ~uops[r].flushed}
      operands == {<<>>} \cup {<<r>> : r \in live}
                    \cup {pair \in live \X live : pair[1] <= pair[2]}
  IN {NewUop(id, o, <<0, 1>>, cfg.latency, FALSE) : o \in operands}
       \cup {NewUop(id, <<>>, <<0, 1>>, cfg.latency, TRUE)}

\* The uops that arrive at the head slots of the input buffer when it
\* ticks: one or two while rename has any, unless the buffer is stalled.
Arrivals ==
  IF pipe.input.stalled \/ nextSeq = MaxDIUInsns THEN {<<>>}
  ELSE (IF nextSeq + 1 <= MaxDIUInsns
        THEN {<<u>> : u \in Uops(nextSeq, insn)} ELSE {})
         \cup (IF nextSeq + 2 <= MaxDIUInsns
               THEN UNION {{<<u, v>> : v \in Uops(nextSeq + 1, [insn EXCEPT ![nextSeq] = u])} :
                             u \in Uops(nextSeq, insn)}
               ELSE {})

\* The execution unit behind port 0 may take several cycles over a uop and
\* stall its port meanwhile.
StallChoices == {[p \in Ports |-> p = 0 /\ busy] : busy \in BOOLEAN}

\* The ports the allocator may answer for the uops at the head slots.
PortChoices ==
  {pick \in [DOMAIN pipe.input.head -> Ports] :
     \A slot \in DOMAIN pipe.input.head :
       LET id == pipe.input.head[slot]
       IN IF id = NoId \/ insn[id].exception THEN pick[slot] = 0
          ELSE pick[slot] \in Range(insn[id].supportedPorts)}

\* The unit ticks.
DIUTick ==
  /\ pipe.phase = "tick"
  /\ diu.ticks < MaxDIUTicks
  /\ \E pick \in PortChoices :
       /\ \E w \in {diuTick(DIUWorld, pick)} : DIUBecomes(w, "exec", pipe.executing)
       /\ hist' = [hist EXCEPT !.pick = pick]
  /\ UNCHANGED <<cfg, rob, rat, mmu, port, mem, issued, nextSeq, faultCalls, lsq, core>>

\* An execution unit completes the uop it took and forwards its results.
DIUForward ==
  /\ pipe.phase = "exec"
  /\ \E id \in pipe.executing :
       \E w \in {forwardOperands(DIUWorld, id)} :
         DIUBecomes(w, "exec", pipe.executing \ {id})
  /\ UNCHANGED <<cfg, rob, rat, mmu, port, mem, issued, nextSeq, faultCalls, lsq, core, hist>>

\* The unit issues, after the execution units.
DIUIssue ==
  /\ pipe.phase = "exec"
  /\ pipe.executing = {}
  /\ \E w \in {diuIssue(DIUWorld)} : DIUBecomes(w, "issued", pipe.executing)
  /\ UNCHANGED <<cfg, rob, rat, mmu, port, mem, issued, nextSeq, faultCalls, lsq, core, hist>>

\* The buffers tick at the end of the cycle: the uop at the tail of an
\* issue port goes to its execution unit, which drops it if it was flushed
\* and may stall the port in the next cycle, and uops arrive from rename.
DIUBuffersTick ==
  /\ pipe.phase = "issued"
  /\ \E stalled \in StallChoices, arrived \in Arrivals :
       /\ insn' = [id \in DOMAIN insn |->
                     IF id - nextSeq + 1 \in DOMAIN arrived
                     THEN arrived[id - nextSeq + 1] ELSE insn[id]]
       /\ nextSeq' = nextSeq + Len(arrived)
       /\ pipe' = [pipe EXCEPT
                     !.phase = "tick",
                     !.ports = [p \in Ports |-> [tail |-> NoId, stalled |-> stalled[p]]],
                     !.executing =
                        @ \cup {pipe.ports[p].tail : p \in
                                  {q \in Ports : /\ pipe.ports[q].tail # NoId
                                                 /\ ~insn[pipe.ports[q].tail].flushed}},
                     !.input.head =
                        IF pipe.input.stalled THEN @
                        ELSE [slot \in DOMAIN @ |->
                                IF slot + 1 \in DOMAIN arrived THEN nextSeq + slot
                                ELSE NoId]]
  /\ UNCHANGED <<diu, cfg, rob, rat, mmu, port, mem, issued, faultCalls, err, lsq, core, hist>>

\* The uops of world w younger than `after` are marked flushed and leave
\* the input buffer.
flushUops(w, after) ==
  [w EXCEPT
     !.insn = [id \in DOMAIN @ |->
                 IF id > after /\ @[id].kind = "uop"
                 THEN [@[id] EXCEPT !.flushed = TRUE] ELSE @[id]],
     !.input.head = [slot \in DOMAIN @ |-> IF @[slot] > after THEN NoId ELSE @[slot]]]

\* The core flushes the uops younger than `after`, and the unit purges them.
DIUFlush ==
  /\ pipe.phase = "tick"
  /\ hist.flushes < MaxDIUFlushes
  /\ \E after \in -1..(nextSeq - 2) :
       \E w \in {diuPurgeFlushed(flushUops(DIUWorld, after))} :
         DIUBecomes(w, "tick", {id \in pipe.executing : id <= after})
  /\ hist' = [hist EXCEPT !.flushes = @ + 1]
  /\ UNCHANGED <<cfg, rob, rat, mmu, port, mem, issued, nextSeq, faultCalls, lsq, core>>

NextDIU ==
  \/ DIUTick
  \/ DIUForward
  \/ DIUIssue
  \/ DIUBuffersTick
  \/ DIUFlush

SpecDIU == InitDIU /\ [][NextDIU]_vars

\* The station behind issue port p, and the ready queue of the port.
stationOf(unit, p) == unit.portMapping[p][1]

readyQueue(unit, p) ==
  unit.reservationStations[unit.portMapping[p][1]].ports[unit.portMapping[p][2]].ready

\* The uops this step dispatches through issue port p, and into station i.
dispatchedTo(p) ==
  {id \in DIUIds : /\ insn[id].kind = "uop"
                   /\ insn[id].port = NoPort
                   /\ insn'[id].port = p}

dispatchedInto(i) ==
  UNION {dispatchedTo(p) : p \in {q \in Ports : stationOf(diu, q) = i}}

\* This step is a tick of the unit that leaves the input buffer stalled on
\* head slot s: the slots before it were emptied, the uop of s and the
\* later slots stay, the port allocated for it was given back, the stall
\* is counted, and the station of that port is full or has had its
\* dispatches of the tick.
stalledOn(s) ==
  LET i == stationOf(diu, hist'.pick[s])
  IN /\ pipe'.input.stalled
     /\ pipe.input.head[s] # NoId
     /\ \A t \in DOMAIN pipe.input.head :
          pipe'.input.head[t] = (IF t < s THEN NoId ELSE pipe.input.head[t])
     /\ insn'[pipe.input.head[s]].port = NoPort
     /\ diu'.rsStalls = diu.rsStalls + 1
     /\ \/ diu'.reservationStations[i].currentSize = diu'.reservationStations[i].capacity
        \/ Cardinality(dispatchedInto(i)) = diu.dispatchRate

\* C23: the occupancy of every reservation station stays between 0 and its
\* capacity, and a tick dispatches at most dispatchRate uops into a
\* station; the tick either empties every head slot of the input buffer
\* without a stall, or stops at the first uop whose station is full or has
\* had its dispatches: that uop and the later slots stay, the input buffer
\* is stalled, the port allocated for the uop is given back and rsStalls
\* grows by one.
C23_StationBoundsAndStall ==
  /\ [](\A i \in DOMAIN diu.reservationStations :
          /\ 0 <= diu.reservationStations[i].currentSize
          /\ diu.reservationStations[i].currentSize <= diu.reservationStations[i].capacity)
  /\ [][diu'.ticks # diu.ticks =>
          /\ \A i \in DOMAIN diu.reservationStations :
               /\ Cardinality(dispatchedInto(i)) <= diu.dispatchRate
               /\ diu'.reservationStations[i].currentSize
                    = diu.reservationStations[i].currentSize + Cardinality(dispatchedInto(i))
          /\ \A p \in Ports :
               pipe'.alloc[p] = pipe.alloc[p] + Cardinality(dispatchedTo(p))
          /\ \/ \E s \in DOMAIN pipe.input.head : stalledOn(s)
             \/ /\ ~pipe'.input.stalled
                /\ \A s \in DOMAIN pipe.input.head : pipe'.input.head[s] = NoId
                /\ diu'.rsStalls = diu.rsStalls]_vars

\* A tick has dispatched the uop of the first head slot and stalled on the
\* uop of the second.
C23_Witness ==
  /\ pipe.phase = "exec"
  /\ pipe.input.stalled
  /\ pipe.input.head[0] = NoId
  /\ pipe.input.head[1] # NoId
  /\ insn[pipe.input.head[1] - 1].port # NoPort
  /\ insn[pipe.input.head[1]].port = NoPort
  /\ diu.rsStalls >= 1

\* The issue ports of station i through which this step issues a uop.
issuingPorts(i) ==
  {p \in Ports : /\ stationOf(diu, p) = i
                 /\ ~pipe.ports[p].stalled
                 /\ Len(readyQueue(diu, p)) > 0}

\* C24: a call of issue() writes to the tail slot of an issue port whose
\* buffer is not stalled the uop at the front of the ready queue of the
\* port, the one that has been in it longest, and takes it off the queue;
\* it leaves a stalled port and its queue as they are; each uop issued
\* lowers the occupancy of its station by one and is reported to the port
\* allocator once.
C24_IssueOnePerFreePort ==
  [][pipe.phase = "exec" /\ pipe'.phase = "issued" =>
       /\ \A p \in Ports :
            LET queue == readyQueue(diu, p)
            IN IF p \in issuingPorts(stationOf(diu, p))
               THEN /\ pipe'.ports[p].tail = queue[1]
                    /\ readyQueue(diu', p) = Tail(queue)
                    /\ pipe'.alloc[p] = pipe.alloc[p] - 1
                    /\ insn'[queue[1]].released = insn[queue[1]].released + 1
                    /\ insn'[queue[1]].left = insn[queue[1]].left + 1
               ELSE /\ pipe'.ports[p].tail = pipe.ports[p].tail
                    /\ readyQueue(diu', p) = queue
                    /\ pipe'.alloc[p] = pipe.alloc[p]
       /\ \A i \in DOMAIN diu.reservationStations :
            diu'.reservationStations[i].currentSize
              = diu.reservationStations[i].currentSize - Cardinality(issuingPorts(i))
       /\ \A id \in DIUIds :
            (insn[id].kind = "uop" /\ \A p \in Ports : pipe'.ports[p].tail # id) =>
              insn'[id] = insn[id]]_vars

\* issue() has written a uop to port 1 and left port 0, which is stalled
\* and has a uop ready, alone.
C24_Witness ==
  /\ pipe.phase = "issued"
  /\ pipe.ports[1].tail # NoId
  /\ pipe.ports[0].stalled
  /\ pipe.ports[0].tail = NoId
  /\ Len(readyQueue(diu, 0)) > 0

\* The forwarding latency of operand k of uop id.
latencyOf(id) == IF diu.enableBypassLatency THEN insn[id].bypass ELSE 0

\* The operands whose producer has forwarded its result.
forwarded == {<<id, k>> \in DIUIds \X (1..2) :
                /\ insn[id].kind = "uop"
                /\ k \in DOMAIN insn[id].forwardedAt
                /\ insn[id].forwardedAt[k] # NoId}

\* Operand k of uop id waits in the list of the entries served from the
\* register file.
waitsForRegisterFile(id, k) ==
  \E e \in Range(diu.dependantInstructions) : e.uop = id /\ e.operandIndex = k

\* C25: an operand whose producer has forwarded with latency 0 was supplied
\* at once; with latency L > 0 it is supplied in the tick L after the
\* forward, not before; with a negative latency it waits in the list
\* served from the register file and is supplied from the register file in
\* the next tick, the scoreboard marking the register ready; so that no
\* forwarded operand is left waiting.
C25_ForwardedOperandsArrive ==
  \A o \in forwarded :
    LET i == insn[o[1]]
        k == o[2]
        L == latencyOf(o[1])
        due == i.forwardedAt[k] + (IF L > 0 THEN L ELSE IF L < 0 THEN 1 ELSE 0)
    IN /\ i.operandReady[k] <=> diu.ticks >= due
       /\ i.operandReady[k] =>
            /\ i.suppliedAt[k] = due
            /\ i.suppliedBy[k] = (IF L > 0 THEN "timed"
                                  ELSE IF L < 0 THEN "registerFile" ELSE "forward")
       /\ (L < 0 /\ ~i.operandReady[k]) =>
            /\ waitsForRegisterFile(o[1], k)
            /\ diu.scoreboard[i.operandRegisters[k]]

\* C26: the port of a dispatched uop is released at most once and the
\* occupancy of its station lowered at most once for it, and after
\* purgeFlushed that has happened exactly once for every flushed uop that
\* was dispatched.
C26_PortReleasedOnce ==
  /\ [](\A id \in DIUIds :
          insn[id].kind = "uop" => insn[id].released <= 1 /\ insn[id].left <= 1)
  /\ [][hist'.flushes # hist.flushes =>
          \A id \in DIUIds :
            (insn'[id].kind = "uop" /\ insn'[id].flushed /\ insn'[id].port # NoPort) =>
              insn'[id].released = 1 /\ insn'[id].left = 1]_vars

\* The calls of lsq.commitStore a log lists.
commitStoreCalls(log) == SelectSeq(log, LAMBDA e : e.op = "commitStore")

\* C27: after a call of commit, shouldFlush() holds exactly if commitStore
\* reported a violation for a store the call committed, whatever it held
\* before the call; then the flush point is the id of the violating load
\* less one, the flush address the address of that load, and the store is
\* the last instruction the call removed from the buffer: it is popped and
\* nothing younger is committed.
C27_FlushOnViolationOnly ==
  hist.lastCommit.called =>
    LET c == hist.lastCommit
        calls == commitStoreCalls(c.log)
        reports == SelectSeq(calls, LAMBDA e : e.ret)
        popped == removedIn(c.log, "pop")
    IN /\ rob.shouldFlush <=> Len(reports) > 0
       /\ shouldFlush(ROBWorld) = rob.shouldFlush
       /\ \A k \in 1..Len(calls) :
            /\ insn[calls[k].id].kind = "store"
            /\ \E j \in 1..Len(popped) : popped[j] = calls[k].id
       /\ rob.shouldFlush =>
            LET e == reports[1]
            IN /\ Len(reports) = 1
               /\ e.load \in ROBIds
               /\ insn[e.load].kind = "load"
               /\ getFlushSeqId(ROBWorld) = e.load - 1
               /\ getFlushAddress(ROBWorld) = getInstructionAddress(e.load)
               /\ popped[Len(popped)] = e.id
               /\ c.log[Len(c.log)] = [op |-> "pop", id |-> e.id]
               /\ c.log[Len(c.log) - 1] = e
               /\ c.ret = Len(popped)
               /\ c.after = SubSeq(c.before, Len(popped) + 1, Len(c.before))

\* A call of commit with room for two instructions has committed a store
\* whose commitStore reported a violation and has left the commit-ready
\* instruction behind the store in the buffer.
C27_Witness ==
  /\ hist.lastCommit.called
  /\ rob.shouldFlush
  /\ hist.lastCommit.maxCommitSize > hist.lastCommit.ret
  /\ Len(rob.buffer) > 0
  /\ rob.buffer[1] \in hist.lastCommit.ready
  /\ \E e \in Range(commitStoreCalls(hist.lastCommit.log)) : e.ret

(***************************************************************************)
(* The in-order core as the operating system sees it: its status, the     *)
(* head of Core::tick, the exception path and the context switch.  Its    *)
(* members:                                                                *)
(*   status                     executing, switching, idle or halted       *)
(*   ticks, idleTicks, procTicks, contextSwitches   counters               *)
(*   exceptionGenerated, exceptionGeneratingInstruction, exceptionRegistered *)
(* The pipeline around it is kept in pl:                                   *)
(*   fetchToDecodeBuffer, decodeToIssueBuffer   pipeline buffers, width 1  *)
(*   portTails, portHeads       the uops in the issue-port buffers         *)
(*   executing                  the uops inside the execution units        *)
(*   slots, heads               the uops in the completion-slot buffers    *)
(*   staging                    staging_: the uops issued and not retired  *)
(*   paused                     the fetch unit is paused                   *)
(* The instructions are plain operations that may encounter an exception   *)
(* and may leave a write pending in the MMU; there are no branches and so  *)
(* no flush other than that of an exception.  raised lists the uops handed *)
(* to raiseException since the last exception was processed.               *)
(***************************************************************************)
NewCore ==
  [status |-> "executing", ticks |-> 0, idleTicks |-> 0, procTicks |-> 0,
   contextSwitches |-> 0,
   exceptionGenerated |-> FALSE, exceptionGeneratingInstruction |-> NoId,
   exceptionRegistered |-> FALSE]

NewPipeline ==
  [fetchToDecodeBuffer |-> PipelineBuffer(1, NoId),
   decodeToIssueBuffer |-> PipelineBuffer(1, NoId),
   portTails |-> {}, portHeads |-> {}, executing |-> {},
   slots |-> {}, heads |-> {}, staging |-> {}, paused |-> FALSE]

NewOp(exception, writes) ==
  [kind |-> "op", exception |-> exception, writes |-> writes, flushed |-> FALSE]

\* A call of Core::raiseException(insn), entered in raised.
raise(w, id) == [raiseException(w, id) EXCEPT !.raised = Append(@, id)]

\* The test of Core::tick on a switching core with the MMU left out.
drainedIgnoringMMU(w) ==
  /\ isEmpty(w.pl.fetchToDecodeBuffer)
  /\ isEmpty(w.pl.decodeToIssueBuffer)
  /\ w.pl.staging = {}
  /\ w.core.exceptionGenerated = FALSE

\* The test of Core::tick on a switching core: the pipeline is empty and
\* there is no active exception.
drained(w) ==
  /\ isEmpty(w.pl.fetchToDecodeBuffer)
  /\ isEmpty(w.pl.decodeToIssueBuffer)
  /\ w.pl.staging = {}
  /\ ~hasPendingRequests(w.mmu)
  /\ w.core.exceptionGenerated = FALSE

\* Core::processException() when the handler's tick returns success and
\* its result is fatal or asks for an idle core.
processExceptionResult(w, handler) ==
  IF hasPendingRequests(w.mmu) THEN w
  ELSE IF ~handler.success THEN w
  ELSE With(IF handler.fatal THEN [w EXCEPT !.core.status = "halted"]
            ELSE IF handler.idleAfterSyscall
            THEN [w EXCEPT !.core.status = "idle",
                           !.core.contextSwitches = @ + 1]
            ELSE w, LAMBDA w1 :
         [w1 EXCEPT !.core.exceptionGenerated = FALSE,
                    !.core.exceptionRegistered = FALSE,
                    !.raised = <<>>])

\* The instructions in the fetch-to-decode and decode-to-issue buffers.
frontIds(w) ==
  (Range(w.pl.fetchToDecodeBuffer.buffer) \cup Range(w.pl.decodeToIssueBuffer.buffer))
    \ {NoId}

\* staging_.getNextSeqID(): the oldest uop issued and not retired, or the
\* uop to be issued next.
stagingNextSeqID(w) ==
  IF w.pl.staging # {}
  THEN CHOOSE x \in w.pl.staging : \A y \in w.pl.staging : x <= y
  ELSE IF frontIds(w) # {}
  THEN CHOOSE x \in frontIds(w) : \A y \in frontIds(w) : x <= y
  ELSE w.nextSeq

\* Core::handleException() with the handler's result: [ok, w].
handleExceptionResult(w, handler) ==
  IF w.core.exceptionGeneratingInstruction > stagingNextSeqID(w)
  THEN [ok |-> FALSE, w |-> w]
  ELSE With(processExceptionResult([w EXCEPT !.core.exceptionRegistered = TRUE],
                                   handler), LAMBDA w1 :
       [ok |-> TRUE,
        w |-> [w1 EXCEPT
                 !.insn = [id \in DOMAIN @ |->
                             IF id \in frontIds(w1) \cup w1.pl.staging
                             THEN [@[id] EXCEPT !.flushed = TRUE] ELSE @[id]],
                 !.pl.fetchToDecodeBuffer = fill(@, NoId),
                 !.pl.decodeToIssueBuffer = fill(@, NoId),
                 !.pl.staging = {},
                 !.pl.executing = {},
                 !.pl.portTails = {}, !.pl.portHeads = {},
                 !.pl.slots = {}, !.pl.heads = {}]])

\* WritebackUnit::tick(): the uops at the heads of the completion slots
\* are written back and retired while canWriteback allows, oldest first.
RECURSIVE writebackTick(_)
writebackTick(w) ==
  IF w.pl.staging = {} THEN w
  ELSE With(stagingNextSeqID(w), LAMBDA id :
    IF id \notin w.pl.heads THEN w
    ELSE With(IF w.insn[id].exception THEN raise(w, id) ELSE w, LAMBDA w1 :
           writebackTick([w1 EXCEPT !.pl.heads = @ \ {id},
                                    !.pl.staging = @ \ {id}])))

\* FetchUnit::tick(): unless paused, the instruction that has arrived, if
\* any, goes to the tail of the fetch-to-decode buffer.
fetchTick(w, arrival) ==
  IF w.pl.paused \/ arrival = NoInsn THEN w
  ELSE [w EXCEPT !.insn[w.nextSeq] = arrival,
                 !.nextSeq = @ + 1,
                 !.pl.fetchToDecodeBuffer.buffer[tailOffset(w.pl.fetchToDecodeBuffer) + 1]
                    = w.nextSeq]

\* DecodeUnit::tick(): the head of the fetch-to-decode buffer moves to the
\* tail of the decode-to-issue buffer.
decodeTick(w) ==
  With(getHeadSlots(w.pl.fetchToDecodeBuffer)[1], LAMBDA id :
    [w EXCEPT !.pl.fetchToDecodeBuffer.buffer[headOffset(w.pl.fetchToDecodeBuffer) + 1]
                 = NoId,
              !.pl.decodeToIssueBuffer.buffer[tailOffset(w.pl.decodeToIssueBuffer) + 1]
                 = id])

\* The issue unit's tick: the head of the decode-to-issue buffer is issued
\* to an issue port and recorded in staging_.
issueTick(w) ==
  With(getHeadSlots(w.pl.decodeToIssueBuffer)[1], LAMBDA id :
    IF id = NoId THEN w
    ELSE [w EXCEPT !.pl.decodeToIssueBuffer.buffer[headOffset(w.pl.decodeToIssueBuffer) + 1]
                      = NoId,
                   !.pl.portTails = @ \cup {id},
                   !.pl.staging = @ \cup {id}])

\* The ticks of the execution units: each takes the uop at the head of its
\* issue port; the uops of `finished` complete, in that order: a uop that
\* encountered an exception is raised, a write is handed to the MMU, and
\* the uop goes to the tail of a completion slot.
RECURSIVE completeUops(_, _, _)
completeUops(w, finished, k) ==
  IF k > Len(finished) THEN w
  ELSE With(finished[k], LAMBDA id :
       With(IF w.insn[id].exception THEN raise(w, id) ELSE w, LAMBDA w1 :
       With(IF w1.insn[id].writes
            THEN [w1 EXCEPT !.mmu.pendingDataRequests = @ + 1] ELSE w1, LAMBDA w2 :
         completeUops([w2 EXCEPT !.pl.executing = @ \ {id},
                                 !.pl.slots = @ \cup {id}], finished, k + 1))))

executeTick(w, finished) ==
  completeUops([w EXCEPT !.pl.executing = @ \cup w.pl.portHeads,
                         !.pl.portHeads = {}], finished, 1)

\* The ticks of the pipeline buffers at the end of Core::tick.
buffersTick(w) ==
  [w EXCEPT !.pl.fetchToDecodeBuffer = tick(@),
            !.pl.decodeToIssueBuffer = tick(@),
            !.pl.portHeads = @ \cup w.pl.portTails,
            !.pl.portTails = {},
            !.pl.heads = @ \cup w.pl.slots,
            !.pl.slots = {}]

\* Core::tick() on the inputs of the cycle: the instruction that arrives
\* at the fetch unit, the uops the execution units finish and the result
\* of the exception handler.  path tells which way the tick went.
coreTick(w, arrival, finished, handler) ==
  With([w EXCEPT !.core.ticks = @ + 1], LAMBDA w0 :
    IF w0.core.status = "idle"
    THEN [w0 EXCEPT !.core.idleTicks = @ + 1, !.path = "idle"]
    ELSE IF w0.core.status = "switching" /\ drained(w0)
    THEN [w0 EXCEPT !.core.status = "idle", !.path = "drained"]
    ELSE IF w0.core.status = "halted"
    THEN [w0 EXCEPT !.path = "halted"]
    ELSE With([w0 EXCEPT !.core.procTicks = @ + 1], LAMBDA w1 :
      IF w1.core.exceptionRegistered
      THEN [processExceptionResult(w1, handler) EXCEPT !.path = "exception"]
      ELSE With(writebackTick(w1), LAMBDA w2 :
           With(fetchTick(w2, arrival), LAMBDA w3 :
           With(decodeTick(w3), LAMBDA w4 :
           With(issueTick(w4), LAMBDA w5 :
           With(executeTick(w5, finished), LAMBDA w6 :
           With(buffersTick(w6), LAMBDA w7 :
           With(IF w7.core.exceptionGenerated THEN handleExceptionResult(w7, handler)
                ELSE [ok |-> FALSE, w |-> w7], LAMBDA h :
             [h.w EXCEPT !.path = IF h.ok THEN "handled" ELSE "units"])))))))))

\* Core::interrupt(): [ret, w].
interrupt(w) ==
  IF w.core.exceptionGenerated = FALSE
  THEN [ret |-> TRUE,
        w |-> [w EXCEPT !.core.status = "switching",
                        !.core.contextSwitches = @ + 1,
                        !.pl.paused = TRUE]]
  ELSE [ret |-> FALSE, w |-> w]

\* Core::schedule(newContext).
schedule(w) ==
  [w EXCEPT !.core.status = "executing",
            !.core.procTicks = 0,
            !.pl.paused = FALSE]

(***************************************************************************)
(* Specification of the core under an operating system that interrupts it *)
(* at any time, schedules it again when it is idle, and a memory that      *)
(* answers the pending writes one by one.                                  *)
(***************************************************************************)
CoreIds == 0..(MaxCoreInsns - 1)

CoreWorld ==
  [core |-> core, insn |-> insn, mmu |-> mmu, nextSeq |-> nextSeq, pl |-> pipe,
   raised |-> hist.raised, path |-> "none"]

CoreBecomes(w) ==
  /\ core' = w.core
  /\ insn' = w.insn
  /\ mmu' = w.mmu
  /\ nextSeq' = w.nextSeq
  /\ pipe' = w.pl

EmptyCoreHist ==
  [raised |-> <<>>, path |-> "none", interrupts |-> 0, schedules |-> 0,
   interrupt |-> [called |-> FALSE, ret |-> FALSE]]

InitCore ==
  /\ cfg = CHOOSE c \in LSQConfigs : TRUE
  /\ insn = [i \in CoreIds |-> NoInsn]
  /\ mmu = EmptyMMU
  /\ port = EmptyBag
  /\ mem = [a \in MemAddrs |-> 0]
  /\ issued = [LD |-> 0, STR |-> 0]
  /\ nextSeq = 0
  /\ faultCalls = 0
  /\ err = FALSE
  /\ lsq = EmptyLSQ("INORDER")
  /\ core = NewCore
  /\ pipe = NewPipeline
  /\ rob = EmptyROB
  /\ rat = EmptyRAT
  /\ diu = NoDIU
  /\ hist = EmptyCoreHist

\* The instructions that may arrive at the fetch unit in a cycle.
CoreArrivals ==
  IF nextSeq < MaxCoreInsns
  THEN {NoInsn} \cup {NewOp(e, s) : e \in BOOLEAN, s \in BOOLEAN}
  ELSE {NoInsn}

\* The uops the execution units may finish in a cycle, in the order of the
\* units.
CoreFinished ==
  LET busy == pipe.executing \cup pipe.portHeads
  IN {<<>>} \cup {<<a>> : a \in busy}
            \cup {<<pair[1], pair[2]>> : pair \in {q \in busy \X busy : q[1] # q[2]}}

\* The results the exception handler may give.
HandlerResults ==
  {[success |-> FALSE, fatal |-> FALSE, idleAfterSyscall |-> FALSE],
   [success |-> TRUE, fatal |-> FALSE, idleAfterSyscall |-> FALSE],
   [success |-> TRUE, fatal |-> TRUE, idleAfterSyscall |-> FALSE],
   [success |-> TRUE, fatal |-> FALSE, idleAfterSyscall |-> TRUE]}

CoreTick ==
  /\ core.ticks < MaxCoreTicks
  /\ \E arrival \in CoreArrivals, finished \in CoreFinished, handler \in HandlerResults :
       \E w \in {coreTick(CoreWorld, arrival, finished, handler)} :
         /\ CoreBecomes(w)
         /\ hist' = [hist EXCEPT !.raised = w.raised, !.path = w.path,
                                 !.interrupt = EmptyCoreHist.interrupt]
  /\ UNCHANGED <<diu, cfg, port, mem, issued, faultCalls, err, lsq, rob, rat>>

CoreInterrupt ==
  /\ hist.interrupts < MaxInterrupts
  /\ \E r \in {interrupt(CoreWorld)} :
       /\ CoreBecomes(r.w)
       /\ hist' = [hist EXCEPT !.interrupts = @ + 1, !.path = "none",
                               !.interrupt = [called |-> TRUE, ret |-> r.ret]]
  /\ UNCHANGED <<diu, cfg, port, mem, issued, faultCalls, err, lsq, rob, rat>>

CoreSchedule ==
  /\ hist.schedules < MaxSchedules
  /\ core.status = "idle"
  /\ CoreBecomes(schedule(CoreWorld))
  /\ hist' = [hist EXCEPT !.schedules = @ + 1, !.path = "none",
                          !.interrupt = EmptyCoreHist.interrupt]
  /\ UNCHANGED <<diu, cfg, port, mem, issued, faultCalls, err, lsq, rob, rat>>

CoreMemRespond ==
  /\ hasPendingRequests(mmu)
  /\ mmu' = [mmu EXCEPT !.pendingDataRequests = @ - 1]
  /\ hist' = [hist EXCEPT !.path = "none", !.interrupt = EmptyCoreHist.interrupt]
  /\ UNCHANGED <<diu, cfg, insn, port, mem, issued, nextSeq, faultCalls, err,
                 lsq, core, pipe, rob, rat>>

NextCore ==
  \/ CoreTick
  \/ CoreInterrupt
  \/ CoreSchedule
  \/ CoreMemRespond

SpecCore == InitCore /\ [][NextCore]_vars

\* This step is a call of interrupt(), and this step is a tick of the core.
interruptCalled == hist'.interrupts # hist.interrupts

coreTicked == core'.ticks # core.ticks

\* C28: interrupt() returns true exactly if no exception is pending; it
\* changes the status only from executing, to switching with the fetch
\* unit paused; when it returns false the status is unchanged; and it
\* leaves a halted or idle core halted or idle.
C28_InterruptOnlyWhenRunning ==
  [][interruptCalled =>
       /\ hist'.interrupt.ret <=> ~core.exceptionGenerated
       /\ ~hist'.interrupt.ret => core'.status = core.status
       /\ core'.status # core.status =>
            /\ core.status = "executing"
            /\ core'.status = "switching"
            /\ pipe'.paused
       /\ core.status \in {"halted", "idle"} => core'.status = core.status]_vars

\* The pipeline buffers are empty, the MMU has no pending request and no
\* exception is pending.
buffersEmpty ==
  /\ isEmpty(pipe.fetchToDecodeBuffer)
  /\ isEmpty(pipe.decodeToIssueBuffer)
  /\ pipe.portTails \cup pipe.portHeads = {}
  /\ pipe.slots \cup pipe.heads = {}
  /\ mmu.pendingDataRequests = 0
  /\ ~core.exceptionGenerated

\* The fetch-to-decode and decode-to-issue buffers are empty, every uop
\* issued has retired, the MMU has no pending request and no exception is
\* pending.
nothingInFlight ==
  /\ isEmpty(pipe.fetchToDecodeBuffer)
  /\ isEmpty(pipe.decodeToIssueBuffer)
  /\ pipe.staging = {}
  /\ mmu.pendingDataRequests = 0
  /\ ~core.exceptionGenerated

\* C29 as stated: a tick moves a switching core to idle only if at its
\* start the pipeline buffers are empty, the MMU has no pending request
\* and no exception is pending; every other tick of a switching core
\* leaves it switching and ticks the pipeline.
C29_IdleOnlyWhenDrained ==
  [][(coreTicked /\ core.status = "switching") =>
       /\ core'.status = "idle" => buffersEmpty
       /\ ~buffersEmpty => core'.status = "switching" /\ hist'.path = "units"]_vars

\* C29, amended: a tick of a switching core whose start finds the two
\* front buffers empty, every issued uop retired, no pending request in
\* the MMU and no pending exception makes the core idle and ticks
\* nothing; the issue ports, the execution units and the completion slots
\* are empty then.  Every other tick of a switching core goes on as on an
\* executing core: it processes a registered exception or ticks the
\* pipeline, and it leaves the core switching unless the exception it
\* processes ends with the handler halting the core or making it idle.
C29_IdleWhenDrainedOrByException ==
  [][(coreTicked /\ core.status = "switching") =>
       IF nothingInFlight
       THEN /\ core'.status = "idle"
            /\ hist'.path = "drained"
            /\ pipe' = pipe
            /\ core'.procTicks = core.procTicks
            /\ buffersEmpty
            /\ pipe.executing = {}
       ELSE /\ hist'.path \in {"exception", "units", "handled"}
            /\ core'.procTicks = core.procTicks + 1
            /\ hist'.path = "exception" <=> core.exceptionRegistered
            /\ core'.status \in {"switching", "idle", "halted"}
            /\ core'.status # "switching" =>
                 /\ hist'.path \in {"exception", "handled"}
                 /\ ~core'.exceptionGenerated
                 /\ ~core'.exceptionRegistered]_vars

\* A switching core whose pipeline held instructions has drained and has
\* become idle by the test at the head of the tick.
C29_Witness ==
  /\ core.status = "idle"
  /\ hist.path = "drained"
  /\ nextSeq > 0
  /\ core.ticks > 2

\* The instruction with the lowest sequence id of a list.
RECURSIVE lowestOf(_)
lowestOf(ids) ==
  IF Len(ids) = 1 THEN ids[1] ELSE Min(ids[1], lowestOf(Tail(ids)))

FlushIds == 0..(MaxFlushInsns - 1)

FlushUnits == 1..MaxFlushUnits

\* The addresses a branch may turn out to lead to.
FlushTargets == {8, 12}

EmptyFlushHist ==
  [ticks |-> 0, decoded |-> NoId,
   requests |-> [eus |-> [k \in FlushUnits |-> NoRequest], decode |-> NoRequest]]

InitFlush ==
  /\ cfg = CHOOSE c \in LSQConfigs : TRUE
  /\ insn = [i \in FlushIds |-> NoInsn]
  /\ mmu = EmptyMMU
  /\ port = EmptyBag
  /\ mem = [a \in MemAddrs |-> 0]
  /\ issued = [LD |-> 0, STR |-> 0]
  /\ nextSeq = 0
  /\ faultCalls = 0
  /\ err = FALSE
  /\ lsq = EmptyLSQ("INORDER")
  /\ core = EmptyCore
  /\ pipe = [phase |-> "ex", heads |-> {}, slots |-> {},
             eus |-> [k \in FlushUnits |-> NoId],
             decodeToIssueBuffer |-> NoId, decoded |-> NoId]
  /\ rob = EmptyROB
  /\ rat = EmptyRAT
  /\ diu = NoDIU
  /\ hist = EmptyFlushHist

\* The fetch unit delivers the next instruction of the program.
FlushFetch ==
  /\ nextSeq < MaxFlushInsns
  /\ core.fetchToDecodeBuffer = {}
  /\ insn' = [insn EXCEPT ![nextSeq] = NewInsn("op", <<>>, FALSE)]
  /\ core' = [core EXCEPT !.fetchToDecodeBuffer = {nextSeq}]
  /\ nextSeq' = nextSeq + 1
  /\ UNCHANGED <<diu, cfg, mmu, port, mem, issued, faultCalls, err, lsq, pipe, rob,
                 rat, hist>>

\* The decode unit moves the instruction in the fetch-to-decode buffer to
\* the decode-to-issue buffer.
FlushDecode ==
  /\ pipe.decoded = NoId
  /\ pipe.decodeToIssueBuffer = NoId
  /\ \E id \in core.fetchToDecodeBuffer :
       pipe' = [pipe EXCEPT !.decodeToIssueBuffer = id, !.decoded = id]
  /\ core' = [core EXCEPT !.fetchToDecodeBuffer = {}]
  /\ UNCHANGED <<diu, cfg, insn, mmu, port, mem, issued, nextSeq, faultCalls, err,
                 lsq, rob, rat, hist>>

\* The instruction decoded in an earlier cycle is issued to a free
\* execution unit.
FlushIssue ==
  /\ pipe.decodeToIssueBuffer # NoId
  /\ pipe.decodeToIssueBuffer # pipe.decoded
  /\ \E k \in FlushUnits :
       /\ pipe.eus[k] = NoId
       /\ pipe' = [pipe EXCEPT !.eus[k] = pipe.decodeToIssueBuffer,
                               !.decodeToIssueBuffer = NoId]
  /\ UNCHANGED <<diu, cfg, insn, mmu, port, mem, issued, nextSeq, faultCalls, err,
                 lsq, core, rob, rat, hist>>

\* Writeback retires the instruction at the head of a completion slot that
\* is next in program order.
FlushRetire ==
  /\ \E id \in pipe.heads :
       /\ ~insn[id].flushed
       /\ canWriteback(LSQWorld, id)
       /\ \E w \in {retireInstruction([LSQWorld EXCEPT !.heads = @ \ {id}], id)} :
            LSQBecomes(w, "ex")
  /\ UNCHANGED <<diu, cfg, rob, rat, mem, nextSeq, faultCalls, hist>>

\* What the execution units may do in a cycle: each unit that holds an
\* instruction may finish it, and then may ask for a flush after it to one
\* of the targets (-1: it finishes and asks for none).
UnitOutcomes ==
  [FlushUnits -> {NoRequest} \cup
                 {FlushRequest(id, a) : id \in FlushIds, a \in FlushTargets \cup {-1}}]

possible(outcome) ==
  \A k \in FlushUnits :
    outcome[k].shouldFlush => pipe.eus[k] = outcome[k].insnId

\* The uops that leave their unit with this outcome, and the requests made.
finishedBy(outcome) == {outcome[k].insnId : k \in {u \in FlushUnits : outcome[u].shouldFlush}}

requestsOf(outcome) ==
  [k \in FlushUnits |-> IF outcome[k].shouldFlush /\ outcome[k].address # -1
                        THEN outcome[k] ELSE NoRequest]

\* What the decode unit may ask for: a flush when it decoded an instruction
\* in this cycle.
DecodeOutcomes ==
  {NoRequest} \cup
  (IF pipe.decoded = NoId THEN {}
   ELSE {FlushRequest(pipe.decoded, a) : a \in FlushTargets})

\* The end of the core's cycle.
FlushTick ==
  /\ hist.ticks < MaxFlushTicks
  /\ \E outcome \in {o \in UnitOutcomes : possible(o)}, decode \in DecodeOutcomes :
       LET requests == [eus |-> requestsOf(outcome), decode |-> decode]
           asSeq == [eus |-> [k \in 1..MaxFlushUnits |-> requests.eus[k]],
                     decode |-> decode]
       IN \E w \in {coreTickTail([LSQWorld EXCEPT !.slots = @ \cup finishedBy(outcome)],
                                 asSeq)} :
            /\ mmu' = w.mmu
            /\ insn' = w.insn
            /\ port' = w.port
            /\ issued' = w.issued
            /\ err' = w.err
            /\ lsq' = w.lsq
            /\ core' = w.core
            /\ pipe' = [pipe EXCEPT
                          !.heads = w.heads, !.slots = w.slots, !.decoded = NoId,
                          !.decodeToIssueBuffer =
                             IF @ # NoId /\ w.insn[@].flushed THEN NoId ELSE @,
                          !.eus = [k \in FlushUnits |->
                                     IF @[k] = NoId THEN NoId
                                     ELSE IF @[k] \in finishedBy(outcome)
                                             \/ w.insn[@[k]].flushed
                                     THEN NoId ELSE @[k]]]
            /\ hist' = [ticks |-> hist.ticks + 1, decoded |-> pipe.decoded,
                        requests |-> requests]
  /\ UNCHANGED <<diu, cfg, rob, rat, mem, nextSeq, faultCalls>>

NextFlush ==
  \/ FlushFetch
  \/ FlushDecode
  \/ FlushIssue
  \/ FlushRetire
  \/ FlushTick

SpecFlush == InitFlush /\ [][NextFlush]_vars

\* This step is the end of a cycle of the core.
flushTicked == hist'.ticks # hist.ticks

\* The flush sources active in the cycle that ends with this step: the
\* requests of the execution units and, for a load violation, the flush
\* after the instruction before the violating load.
activeSources ==
  {hist'.requests.eus[k] : k \in {u \in FlushUnits : hist'.requests.eus[u].shouldFlush}}
    \cup (IF core'.loadViolation
          THEN {FlushRequest(lsq'.violatingLoad - 1,
                             getInstructionAddress(lsq'.violatingLoad))}
          ELSE {})

StoreIds == 0..(MaxStores - 1)

\* No request limit is in the way; the store bandwidth is one or two bytes.
StoreConfigs ==
  {c \in Configs : /\ ~c.exclusiveRequests
                   /\ c.requestLimit = 2
                   /\ c.loadRequestLimit = 2
                   /\ c.storeRequestLimit = 2}

InitStore ==
  /\ cfg \in StoreConfigs
  /\ insn = [i \in StoreIds |-> NoInsn]
  /\ mmu = EmptyMMU
  /\ port = EmptyBag
  /\ mem = [a \in MemAddrs |-> 0]
  /\ issued = [LD |-> 0, STR |-> 0]
  /\ nextSeq = 0
  /\ faultCalls = 0
  /\ err = FALSE
  /\ lsq = EmptyLSQ("INORDER")
  /\ core = EmptyCore
  /\ pipe = EmptyPipe
  /\ rob = EmptyROB
  /\ rat = EmptyRAT
  /\ diu = NoDIU
  /\ hist = [failed |-> {}]

\* The driver calls requestWrite with a new store, plain or conditional.
StoreRequestWrite ==
  /\ nextSeq < MaxStores
  /\ \E tg \in Targets, isStoreCond \in BOOLEAN :
       LET uop == [NewInsn("store", <<tg>>, TRUE)
                     EXCEPT !.data = <<StoreBytes(nextSeq, tg.size)>>,
                            !.storeCond = isStoreCond]
           r == requestWrite([MMUWorld EXCEPT !.insn[nextSeq] = uop], nextSeq)
       IN /\ r.ok
          /\ MMUBecomes(r.w)
          /\ nextSeq' = nextSeq + 1
  /\ UNCHANGED <<diu, cfg, rob, rat, mem, faultCalls, lsq, core, pipe, hist>>

\* One cycle of the MMU.
StoreTick ==
  /\ \E xl \in PageTables :
       /\ \E w \in {mmuTick(MMUWorld, xl)} : MMUBecomes(w)
       /\ faultCalls' = countFault(xl)
  /\ UNCHANGED <<diu, cfg, rob, rat, mem, nextSeq, lsq, core, pipe, hist>>

\* The memory answers one of the packets it holds; the write of a
\* conditional store may fail, and then the memory is not written.
StoreMemRespond ==
  /\ \E pkt \in BagToSet(port) :
       \E hasFailed \in IF insn[pkt.insnSeqId].storeCond THEN BOOLEAN ELSE {FALSE} :
         /\ mem' = IF hasFailed THEN mem ELSE memWrite(mem, pkt)
         /\ MMUBecomes(receive([MMUWorld EXCEPT !.port = @ (-) SetToBag({pkt})],
                               [memResponse(mem, pkt) EXCEPT !.failed = hasFailed]))
         /\ hist' = [hist EXCEPT !.failed =
                       IF hasFailed THEN @ \cup {pkt.insnSeqId} ELSE @]
  /\ UNCHANGED <<diu, cfg, rob, rat, nextSeq, faultCalls, lsq, core, pipe>>

\* The translation of a parked address has been resolved and the MMU is told.
StoreSupplyDelayedTranslation ==
  /\ \E vaddr \in DOMAIN mmu.pendingRequests :
       \E xl \in ResolvedTables(vaddr) :
         \E w \in {supplyDelayedTranslation(MMUWorld, vaddr, xl)} : MMUBecomes(w)
  /\ UNCHANGED <<diu, cfg, rob, rat, mem, nextSeq, faultCalls, lsq, core, pipe, hist>>

NextStore ==
  \/ StoreRequestWrite
  \/ StoreTick
  \/ StoreMemRespond
  \/ StoreSupplyDelayedTranslation

SpecStore == InitStore /\ [][NextStore]_vars

\* The packets of store id still in loadsStores_[STR], and those issued
\* and not yet answered: held by the memory or parked on a translation.
queuedOf(id) == {pkt \in queuedPackets(mmu.str) : pkt.insnSeqId = id}

unansweredOf(id) ==
  {pkt \in BagToSet(port) : pkt.insnSeqId = id}
    \cup UNION {{pkt \in Range(mmu.pendingRequests[a]) : pkt.insnSeqId = id} :
                  a \in DOMAIN mmu.pendingRequests}

\* C32: a plain store accepted by requestWrite is ready to commit exactly
\* when none of its packets is left in the store vector, and is in
\* requestedStores_ exactly until then; a conditional store is never made
\* ready to commit by the MMU, has its result exactly when none of its
\* packets is queued or unanswered, and the result is success iff none of
\* its packets was answered as failed.
C32_StoreReadyAtLastPacket ==
  \A id \in StoreIds :
    insn[id].kind = "store" =>
      IF ~insn[id].storeCond
      THEN /\ insn[id].commitReady <=> queuedOf(id) = {}
           /\ id \in DOMAIN mmu.requestedStores <=> queuedOf(id) # {}
           /\ ~insn[id].condResultReady
      ELSE /\ ~insn[id].commitReady
           /\ insn[id].condResultReady <=> (queuedOf(id) = {} /\ unansweredOf(id) = {})
           /\ insn[id].condResultReady => (insn[id].condResult <=> id \notin hist.failed)

\* A plain store of two packets has had its first packet issued and
\* answered and is not ready to commit, while a conditional store before it
\* has its result, a failure, after the answers to both its packets.
C32_Witness ==
  /\ insn[0].kind = "store" /\ insn[0].storeCond
  /\ Len(createWriteMemPackets(insn[0].addrs[1], insn[0].data[1], 0, 0)) = 2
  /\ insn[0].condResultReady /\ ~insn[0].condResult
  /\ insn[1].kind = "store" /\ ~insn[1].storeCond
  /\ Cardinality(queuedOf(1)) = 1
  /\ unansweredOf(1) = {}
  /\ ~insn[1].commitReady

(***************************************************************************)
(* Specification of the requests the LSQ sends to the MMU: loads with an   *)
(* LSQ latency of one to three cycles and stores are dispatched, the loads *)
(* start in any order, the stores start and commit in program order, the   *)
(* LSQ and the MMU tick and the memory answers.  hist.sent holds the       *)
(* instructions the last tick of the LSQ handed to the MMU.                *)
(***************************************************************************)
SendIds == 0..(MaxSendInsns - 1)

\* Loads and stores are not exclusive and two requests fit in the MMU.
SendConfigs == {c \in Configs : ~c.exclusiveRequests /\ c.requestLimit = 2}

SendLatencies == 1..MaxLatency

NothingSent == [loads |-> {}, stores |-> {}]

InitSend ==
  /\ cfg \in SendConfigs
  /\ insn = [i \in SendIds |-> NoInsn]
  /\ mmu = EmptyMMU
  /\ port = EmptyBag
  /\ mem = [a \in MemAddrs |-> 0]
  /\ issued = [LD |-> 0, STR |-> 0]
  /\ nextSeq = 0
  /\ faultCalls = 0
  /\ err = FALSE
  /\ lsq = EmptyLSQ("INORDER")
  /\ core = EmptyCore
  /\ pipe = EmptyPipe
  /\ rob = EmptyROB
  /\ rat = EmptyRAT
  /\ diu = NoDIU
  /\ hist = [sent |-> NothingSent]

\* Dispatch of the next instruction in program order, a load with its LSQ
\* latency or a store of one byte at address 0.
SendDispatch ==
  /\ nextSeq < MaxSendInsns
  /\ \E kind \in {"load", "store"}, latency \in SendLatencies :
       /\ kind = "store" => latency = 1
       /\ \E w \in {[LSQWorld EXCEPT
                       !.insn[nextSeq] =
                          [NewInsn(kind, <<[vaddr |-> 0, size |-> 1]>>, FALSE)
                             EXCEPT !.lsqLatency = latency]]} :
            LSQBecomes(IF kind = "load" THEN addLoad(w, nextSeq) ELSE addStore(w, nextSeq),
                       "ex")
  /\ nextSeq' = nextSeq + 1
  /\ hist' = [sent |-> NothingSent]
  /\ UNCHANGED <<diu, cfg, rob, rat, mem, faultCalls>>

\* An execution unit executes a load: its address is generated and the LSQ
\* starts it.
SendStartLoad ==
  /\ \E id \in SendIds :
       /\ insn[id].kind = "load"
       /\ Len(insn[id].addrs) = 0
       /\ \E w \in {startLoad([LSQWorld EXCEPT !.insn[id].addrs = insn[id].tgts], id)} :
            LSQBecomes(w, "ex")
  /\ hist' = [sent |-> NothingSent]
  /\ UNCHANGED <<diu, cfg, rob, rat, mem, nextSeq, faultCalls>>

\* The store at the front of the store queue executes and retires: its
\* data goes to the LSQ, and the LSQ starts and commits it.
SendStartStore ==
  /\ Len(lsq.storeQueue) > 0
  /\ \E id \in {lsq.storeQueue[1].id} :
       LET tgts == insn[id].tgts
           uop == [execute(insn[id]) EXCEPT
                     !.addrs = tgts,
                     !.data = [k \in 1..Len(tgts) |-> StoreBytes(id, tgts[k].size)]]
       IN \E w \in {supplyStoreData([LSQWorld EXCEPT !.insn[id] = uop], id)} :
            \E started \in {startStore(w, id)} :
              LSQBecomes(commitStore(started, id).w, "ex")
  /\ hist' = [sent |-> NothingSent]
  /\ UNCHANGED <<diu, cfg, rob, rat, mem, nextSeq, faultCalls>>

\* LoadStoreQueue::tick().
SendTick ==
  /\ lsq.tickCounter < MaxSendTicks
  /\ \E w \in {lsqTick(LSQWorld)} :
       /\ LSQBecomes(w, "ex")
       /\ hist' = [sent |-> [loads |-> DOMAIN w.mmu.requestedLoads
                                         \ DOMAIN mmu.requestedLoads,
                             stores |-> DOMAIN w.mmu.requestedStores
                                          \ DOMAIN mmu.requestedStores]]
  /\ UNCHANGED <<diu, cfg, rob, rat, mem, nextSeq, faultCalls>>

\* One cycle of the MMU.
SendMMUTick ==
  /\ mmu.ld # <<>> \/ mmu.str # <<>>
  /\ \E w \in {mmuTick(LSQWorld, AllOK)} : LSQBecomes(w, "ex")
  /\ hist' = [sent |-> NothingSent]
  /\ UNCHANGED <<diu, cfg, rob, rat, mem, nextSeq, faultCalls>>

\* The memory answers one of the packets it holds.
SendMemRespond ==
  /\ \E pkt \in BagToSet(port) :
       /\ mem' = memWrite(mem, pkt)
       /\ \E w \in {receive([LSQWorld EXCEPT !.port = @ (-) SetToBag({pkt})],
                            memResponse(mem, pkt))} : LSQBecomes(w, "ex")
  /\ hist' = [sent |-> NothingSent]
  /\ UNCHANGED <<diu, cfg, rob, rat, nextSeq, faultCalls>>

NextSend ==
  \/ SendDispatch
  \/ SendStartLoad
  \/ SendStartStore
  \/ SendTick
  \/ SendMMUTick
  \/ SendMemRespond

SpecSend == InitSend /\ [][NextSend]_vars

\* The instructions waiting in a request queue, the cycle instruction id is
\* due in, and the instructions of the queue due by cycle now.
waitingIn(queue) == UNION {Range(queue[c]) : c \in DOMAIN queue}

dueCycle(queue, id) == CHOOSE c \in DOMAIN queue : id \in Range(queue[c])

dueBy(queue, now) == {id \in waitingIn(queue) : dueCycle(queue, id) <= now}

\* The instructions whose packets stand in a vector of the MMU, in the
\* order in which the MMU accepted them.
acceptedOrder(vectors) == [k \in 1..Len(vectors) |-> vectors[k][1].insnSeqId]

\* What a tick does to one request queue: before and after are the queue
\* before and after the tick, sent the instructions the MMU accepted in
\* the tick, order the instructions in the MMU's vector after the tick and
\* admitted whether the MMU would accept another request of the type.
sentInOrder(before, after, sent, order, now, admitted) ==
  /\ sent \subseteq dueBy(before, now)
  /\ waitingIn(after) = waitingIn(before) \ sent
  /\ \A c \in DOMAIN after :
       /\ c \in DOMAIN before
       /\ \E n \in 0..Len(before[c]) :
            after[c] = SubSeq(before[c], n + 1, Len(before[c]))
  /\ \A s \in sent, r \in waitingIn(after) : dueCycle(before, s) <= dueCycle(before, r)
  /\ \A i, j \in 1..Len(order) :
       (i < j /\ order[i] \in sent /\ order[j] \in sent)
          => dueCycle(before, order[i]) <= dueCycle(before, order[j])
  /\ dueBy(after, now) # {} => ~admitted

\* C34: in a tick of the LSQ the loads and the stores handed to the MMU
\* were due, they leave their queue from its front in ascending order of
\* their due cycle, every request left behind keeps its place, and due
\* requests of a type are left behind only when the MMU accepts no further
\* request of that type, whatever happened to the other type.
C34_DueRequestsOffered ==
  [][lsq'.tickCounter # lsq.tickCounter =>
       /\ sentInOrder(lsq.requestLoadQueue, lsq'.requestLoadQueue, hist'.sent.loads,
                      acceptedOrder(mmu'.ld), lsq'.tickCounter, readAdmitted(mmu'))
       /\ sentInOrder(lsq.requestStoreQueue, lsq'.requestStoreQueue, hist'.sent.stores,
                      acceptedOrder(mmu'.str), lsq'.tickCounter, writeAdmitted(mmu'))]_vars

\* The last tick of the LSQ left a due store behind, refused by the MMU,
\* and handed the MMU a load of the largest LSQ latency.
C34_Witness ==
  /\ dueBy(lsq.requestStoreQueue, lsq.tickCounter) # {}
  /\ hist.sent.stores = {}
  /\ \E id \in hist.sent.loads : insn[id].lsqLatency = MaxLatency


\* The position of the last entry of log that removes an instruction
\* before position k, or 0.
RECURSIVE lastPopBefore(_, _)
lastPopBefore(log, k) ==
  IF k <= 1 THEN 0
  ELSE IF log[k - 1].op = "pop" THEN k - 1
  ELSE lastPopBefore(log, k - 1)

\* C35: when a call of commit finds an instruction with an exception at the
\* head of the buffer, commit-ready, it raises the exception to the core,
\* removes the instruction and returns: between the removal before it and
\* its own removal the call makes no call of rat.commit and none of
\* lsq.commitStore, so a store stays in the store queue of the LSQ, and the
\* removal is the last thing the call does; no instruction with an
\* exception is removed earlier in the call, and the instructions behind it
\* stay in the buffer.
C35_ExceptionAtHeadStopsCommit ==
  hist.lastCommit.called =>
    LET c == hist.lastCommit
        popped == removedIn(c.log, "pop")
    IN /\ \A k \in 1..Len(c.log) :
            (c.log[k].op = "pop" /\ insn[c.log[k].id].exception) =>
              /\ k = Len(c.log)
              /\ lastPopBefore(c.log, k) = k - 1
              /\ core.exceptionGenerated
              /\ core.exceptionGeneratingInstruction <= c.log[k].id
              /\ insn[c.log[k].id].kind = "store" =>
                   \E e \in Range(lsq.storeQueue) : e.id = c.log[k].id
       /\ c.ret = Len(popped)
       /\ popped = SubSeq(c.before, 1, Len(popped))
       /\ c.after = SubSeq(c.before, Len(popped) + 1, Len(c.before))
       /\ (Len(popped) < c.maxCommitSize /\ Len(c.after) > 0
           /\ c.after[1] \in c.ready) =>
            \/ insn[popped[Len(popped)]].exception
            \/ rob.shouldFlush

\* A call of commit with room for two instructions has removed a store
\* with a destination-writing instruction behind it: the store came back
\* with an exception, it is still in the store queue, and the commit-ready
\* instruction behind it is left in the buffer with its register
\* uncommitted.
C35_Witness ==
  /\ hist.lastCommit.called
  /\ hist.lastCommit.ret = 1
  /\ hist.lastCommit.maxCommitSize = MaxCommitSize
  /\ hist.lastCommit.log = <<[op |-> "pop", id |-> hist.lastCommit.before[1]]>>
  /\ insn[hist.lastCommit.before[1]].exception
  /\ insn[hist.lastCommit.before[1]].kind = "store"
  /\ \E e \in Range(lsq.storeQueue) : e.id = hist.lastCommit.before[1]
  /\ Len(rob.buffer) > 0
  /\ rob.buffer[1] \in hist.lastCommit.ready
  /\ Len(insn[rob.buffer[1]].dests) > 0
  /\ core.exceptionGenerated
  /\ core.exceptionGeneratingInstruction = hist.lastCommit.before[1]


(***************************************************************************)
(* outoforder::DispatchIssueUnit (src/outoforder/DispatchIssueUnit.cc):   *)
(* one reservation station scanned in order.  Its members:                 *)
(*   reservationStation   the entries {uop, port}, oldest first            *)
(*   scoreboard           per register, whether its value is ready         *)
(*   dependencyMatrix     per register, the uops waiting for it            *)
(*   readyCount           the count issue() bounds its scan with           *)
(*   rsStalls, frontendStalls, backendStalls, outOfOrderIssues,            *)
(*   portBusyStalls       statistics                                       *)
(* A register is named by the uop that writes it.  The unit lives in diu,  *)
(* its buffers and the port allocator in pipe, as for the unit above.      *)
(***************************************************************************)
OoODispatchIssueUnit(maxReservationStationSize) ==
  [reservationStation |-> <<>>,
   scoreboard |-> [r \in 0..(MaxOoOInsns - 1) |-> TRUE],
   dependencyMatrix |-> [r \in 0..(MaxOoOInsns - 1) |-> <<>>],
   maxReservationStationSize |-> maxReservationStationSize,
   readyCount |-> 0, rsStalls |-> 0, frontendStalls |-> 0, backendStalls |-> 0,
   outOfOrderIssues |-> 0, portBusyStalls |-> 0]

\* Instruction::supplyOperand(reg, value) of the uop id: the operands that
\* name reg and are not supplied yet receive the value, all of them or the
\* first of them only.
RECURSIVE supplyOperandByRegister(_, _, _, _, _)
supplyOperandByRegister(w, id, reg, k, all) ==
  IF k > Len(w.insn[id].operandRegisters) THEN w
  ELSE IF w.insn[id].operandRegisters[k] = reg /\ ~w.insn[id].operandReady[k]
  THEN With([w EXCEPT !.insn[id].operandReady[k] = TRUE], LAMBDA w1 :
         IF all THEN supplyOperandByRegister(w1, id, reg, k + 1, all) ELSE w1)
  ELSE supplyOperandByRegister(w, id, reg, k + 1, all)

\* The register read of tick() for the operands of uop from the i-th:
\* [ready, w].
RECURSIVE registerRead(_, _, _, _, _)
registerRead(w, uop, i, ready, all) ==
  IF i > Len(w.insn[uop].operandRegisters) THEN [ready |-> ready, w |-> w]
  ELSE With(w.insn[uop].operandRegisters[i], LAMBDA reg :
    IF ~w.insn[uop].operandReady[i]
    THEN IF w.diu.scoreboard[reg]
         THEN registerRead(supplyOperandByRegister(w, uop, reg, 1, all),
                           uop, i + 1, ready, all)
         ELSE registerRead([w EXCEPT !.diu.dependencyMatrix[reg] = Append(@, uop)],
                           uop, i + 1, FALSE, all)
    ELSE registerRead(w, uop, i + 1, ready, all))

\* The scoreboard with the destination registers of uop not ready.
destinationsNotReady(w, uop) ==
  [w EXCEPT !.diu.scoreboard =
     [r \in DOMAIN @ |-> IF r \in Range(w.insn[uop].destinationRegisters)
                         THEN FALSE ELSE @[r]]]

\* outoforder::DispatchIssueUnit::tick() from head slot `slot`; pick[slot]
\* is the port the allocator answers for the uop in that slot.
RECURSIVE oooTick(_, _, _, _)
oooTick(w, slot, pick, all) ==
  IF slot >= inputWidth THEN w
  ELSE With(w.input.head[slot], LAMBDA uop :
    IF uop = NoId THEN oooTick(w, slot + 1, pick, all)
    ELSE IF Len(w.diu.reservationStation) = w.diu.maxReservationStationSize
    THEN [w EXCEPT !.input.stalled = TRUE, !.diu.rsStalls = @ + 1]
    ELSE With(registerRead([w EXCEPT !.input.stalled = FALSE], uop, 1, TRUE, all),
              LAMBDA r :
         With(destinationsNotReady(
                [r.w EXCEPT !.diu.readyCount = IF r.ready THEN @ + 1 ELSE @], uop),
              LAMBDA w1 :
         With([allocatePort(w1, pick[slot]) EXCEPT
                 !.insn[uop].port = pick[slot],
                 !.diu.reservationStation =
                    Append(@, [uop |-> uop, port |-> pick[slot]]),
                 !.input.head[slot] = NoId], LAMBDA w2 :
           oooTick(w2, slot + 1, pick, all)))))

\* The scan of issue() from the k-th entry of the reservation station, with
\* the local variables issued, readyRemaining and availablePorts.
RECURSIVE scanStation(_, _, _, _, _)
scanStation(w, k, issuedNow, readyRemaining, availablePorts) ==
  IF ~(/\ issuedNow < Cardinality(Ports)
       /\ k <= Len(w.diu.reservationStation)
       /\ readyRemaining > 0)
  THEN [issued |-> issuedNow, w |-> w]
  ELSE With(w.diu.reservationStation[k], LAMBDA entry :
    IF canExecute(w.insn[entry.uop])
    THEN IF ~availablePorts[entry.port]
         THEN scanStation([w EXCEPT !.diu.portBusyStalls = @ + 1],
                          k, issuedNow, readyRemaining - 1, availablePorts)
         ELSE With([releasePort(w, entry.port) EXCEPT
                      !.ports[entry.port].tail = entry.uop,
                      !.insn[entry.uop].released = @ + 1,
                      !.diu.readyCount = @ - 1,
                      !.diu.outOfOrderIssues = IF k # 1 THEN @ + 1 ELSE @,
                      !.diu.reservationStation = RemoveAt(@, k)], LAMBDA w1 :
                scanStation(w1, k, issuedNow + 1, readyRemaining - 1,
                            [availablePorts EXCEPT ![entry.port] = FALSE]))
    ELSE scanStation(w, k + 1, issuedNow, readyRemaining, availablePorts))

\* outoforder::DispatchIssueUnit::issue().
oooIssue(w) ==
  With(scanStation(w, 1, 0, w.diu.readyCount,
                   [p \in Ports |-> ~w.ports[p].stalled]), LAMBDA r :
    IF r.issued = 0
    THEN IF Len(r.w.diu.reservationStation) = 0
         THEN [r.w EXCEPT !.diu.frontendStalls = @ + 1]
         ELSE [r.w EXCEPT !.diu.backendStalls = @ + 1]
    ELSE r.w)

\* The loop of forwardOperands over the uops that depend on reg, from the
\* k-th.
RECURSIVE supplyDependents(_, _, _, _, _)
supplyDependents(w, dependents, reg, k, all) ==
  IF k > Len(dependents) THEN w
  ELSE With(supplyOperandByRegister(w, dependents[k], reg, 1, all), LAMBDA w1 :
         supplyDependents(
           IF canExecute(w1.insn[dependents[k]])
           THEN [w1 EXCEPT !.diu.readyCount = @ + 1] ELSE w1,
           dependents, reg, k + 1, all))

\* outoforder::DispatchIssueUnit::forwardOperands(registers, values) for
\* the destination registers of uop id, from the i-th.
RECURSIVE oooForwardOperands(_, _, _, _)
oooForwardOperands(w, id, i, all) ==
  IF i > Len(w.insn[id].destinationRegisters) THEN w
  ELSE With(w.insn[id].destinationRegisters[i], LAMBDA reg :
       With(supplyDependents([w EXCEPT !.diu.scoreboard[reg] = TRUE],
                             w.diu.dependencyMatrix[reg], reg, 1, all), LAMBDA w1 :
         oooForwardOperands([w1 EXCEPT !.diu.dependencyMatrix[reg] = <<>>],
                            id, i + 1, all)))

\* outoforder::DispatchIssueUnit::purgeFlushed() from the k-th entry.
RECURSIVE oooPurgeFlushed(_, _)
oooPurgeFlushed(w, k) ==
  IF k > Len(w.diu.reservationStation) THEN w
  ELSE With(w.diu.reservationStation[k], LAMBDA entry :
    IF w.insn[entry.uop].flushed
    THEN With([releasePort(w, entry.port) EXCEPT
                 !.insn[entry.uop].released = @ + 1,
                 !.diu.readyCount = IF canExecute(w.insn[entry.uop])
                                    THEN @ - 1 ELSE @,
                 !.diu.reservationStation = RemoveAt(@, k)], LAMBDA w1 :
           oooPurgeFlushed(w1, k))
    ELSE oooPurgeFlushed(w, k + 1))

(***************************************************************************)
(* Specification of the out-of-order dispatch/issue unit in a core, cycle  *)
(* by cycle as for the unit above: the unit ticks, the execution units     *)
(* forward the results of the uops they took, the unit issues, the buffers *)
(* tick; the core may flush before a tick.                                 *)
(***************************************************************************)
OoOIds == 0..(MaxOoOInsns - 1)

\* The reservation station holds two uops; Instruction::supplyOperand
\* supplies every operand that names the register, or the first one.
OoOConfigs ==
  {[maxReservationStationSize |-> MaxStation, supplyAll |-> all] : all \in BOOLEAN}

InitOoO ==
  /\ cfg \in OoOConfigs
  /\ insn = [i \in OoOIds |-> NoInsn]
  /\ diu = OoODispatchIssueUnit(cfg.maxReservationStationSize)
  /\ pipe = [phase |-> "issued",
             input |-> [head |-> [slot \in 0..(inputWidth - 1) |-> NoId],
                        stalled |-> FALSE],
             ports |-> [p \in Ports |-> [tail |-> NoId, stalled |-> FALSE]],
             alloc |-> [p \in Ports |-> 0],
             executing |-> {}]
  /\ hist = [flushes |-> 0, ticks |-> 0]
  /\ mmu = EmptyMMU
  /\ port = EmptyBag
  /\ mem = [a \in MemAddrs |-> 0]
  /\ issued = [LD |-> 0, STR |-> 0]
  /\ nextSeq = 0
  /\ faultCalls = 0
  /\ err = FALSE
  /\ lsq = EmptyLSQ("OUTOFORDER")
  /\ core = EmptyCore
  /\ rob = EmptyROB
  /\ rat = EmptyRAT

\* The uops rename may hand over with sequence id `id`: they read no
\* register, one register, one register through two operands or two
\* registers, written by older uops that were not flushed.
OoOUops(id, uops) ==
  LET live == {r \in OoOIds : r < id /\ uops[r].kind = "uop" /\ ~uops[r].flushed}
  IN {NewUop(id, o, <<0, 1>>, 0, FALSE) :
        o \in {<<>>} \cup {<<r>> : r \in live}
                    \cup {pair \in live \X live : pair[1] <= pair[2]}}

\* The uops that arrive at the head slots of the input buffer when it
\* ticks.
OoOArrivals ==
  IF pipe.input.stalled \/ nextSeq = MaxOoOInsns THEN {<<>>}
  ELSE {<<u>> : u \in OoOUops(nextSeq, insn)}
         \cup (IF nextSeq + 2 <= MaxOoOInsns
               THEN UNION {{<<u, v>> :
                              v \in OoOUops(nextSeq + 1, [insn EXCEPT ![nextSeq] = u])} :
                             u \in OoOUops(nextSeq, insn)}
               ELSE {})

\* The unit ticks; the allocator answers any port.
OoOTick ==
  /\ pipe.phase = "tick"
  /\ hist.ticks < MaxOoOTicks
  /\ \E pick \in [0..(inputWidth - 1) -> Ports] :
       /\ \A slot \in DOMAIN pick : pipe.input.head[slot] = NoId => pick[slot] = 0
       /\ \E w \in {oooTick(DIUWorld, 0, pick, cfg.supplyAll)} :
            DIUBecomes(w, "exec", pipe.executing)
  /\ hist' = [hist EXCEPT !.ticks = @ + 1]
  /\ UNCHANGED <<cfg, rob, rat, mmu, port, mem, issued, nextSeq, faultCalls, lsq, core>>

\* An execution unit completes the uop it took and forwards its results,
\* or works on it for another cycle.
OoOForward ==
  /\ pipe.phase = "exec"
  /\ \E id \in pipe.executing :
       \E w \in {oooForwardOperands(DIUWorld, id, 1, cfg.supplyAll)} :
         DIUBecomes(w, "exec", pipe.executing \ {id})
  /\ UNCHANGED <<cfg, rob, rat, mmu, port, mem, issued, nextSeq, faultCalls, lsq, core, hist>>

\* The unit issues, after the execution units.
OoOIssue ==
  /\ pipe.phase = "exec"
  /\ \E w \in {oooIssue(DIUWorld)} : DIUBecomes(w, "issued", pipe.executing)
  /\ UNCHANGED <<cfg, rob, rat, mmu, port, mem, issued, nextSeq, faultCalls, lsq, core, hist>>

\* The buffers tick at the end of the cycle: the uop at the tail of an
\* issue port goes to its execution unit, the unit behind port 0 may stall
\* its port in the next cycle, and uops arrive from rename.
OoOBuffersTick ==
  /\ pipe.phase = "issued"
  /\ \E stalled \in StallChoices, arrived \in OoOArrivals :
       /\ insn' = [id \in DOMAIN insn |->
                     IF id - nextSeq + 1 \in DOMAIN arrived
                     THEN arrived[id - nextSeq + 1] ELSE insn[id]]
       /\ nextSeq' = nextSeq + Len(arrived)
       /\ pipe' = [pipe EXCEPT
                     !.phase = "tick",
                     !.ports = [p \in Ports |-> [tail |-> NoId, stalled |-> stalled[p]]],
                     !.executing = @ \cup {pipe.ports[p].tail : p \in
                                             {q \in Ports : pipe.ports[q].tail # NoId}},
                     !.input.head =
                        IF pipe.input.stalled THEN @
                        ELSE [slot \in DOMAIN @ |->
                                IF slot + 1 \in DOMAIN arrived THEN nextSeq + slot
                                ELSE NoId]]
  /\ UNCHANGED <<diu, cfg, rob, rat, mmu, port, mem, issued, faultCalls, err, lsq, core, hist>>

\* The core flushes the uops younger than `after`: they leave the input
\* buffer and the execution units, and the unit purges them.
OoOFlush ==
  /\ pipe.phase = "tick"
  /\ hist.flushes < MaxOoOFlushes
  /\ \E after \in -1..(nextSeq - 2) :
       \E w \in {oooPurgeFlushed(flushUops(DIUWorld, after), 1)} :
         DIUBecomes(w, "tick", {id \in pipe.executing : id <= after})
  /\ hist' = [hist EXCEPT !.flushes = @ + 1]
  /\ UNCHANGED <<cfg, rob, rat, mmu, port, mem, issued, nextSeq, faultCalls, lsq, core>>

NextOoO ==
  \/ OoOTick
  \/ OoOForward
  \/ OoOIssue
  \/ OoOBuffersTick
  \/ OoOFlush

SpecOoO == InitOoO /\ [][NextOoO]_vars

\* The entries of the reservation station whose uop can execute.
readyEntries(unit, uops) ==
  {k \in 1..Len(unit.reservationStation) :
     canExecute(uops[unit.reservationStation[k].uop])}


\* The uops of the reservation station of unit.
stationUops(unit) == {unit.reservationStation[k].uop : k \in DOMAIN unit.reservationStation}

\* C36: in a call of issue() that starts with readyCount equal to the
\* number of entries that can execute, a ready entry whose port is not
\* available is skipped and counted once: portBusyStalls grows by at most
\* the number of ready entries left in the station whose port is stalled or
\* was taken in this call, and every port that is not stalled and has a
\* ready entry waiting for it receives a uop.
C36_BusyPortSkippedOnce ==
  [][(/\ pipe.phase = "exec"
      /\ pipe'.phase = "issued"
      /\ diu.readyCount = Cardinality(readyEntries(diu, insn))) =>
       LET ready == readyEntries(diu, insn)
           entry(k) == diu.reservationStation[k]
           skipped == {k \in ready :
                         /\ entry(k).uop \in stationUops(diu')
                         /\ \/ pipe.ports[entry(k).port].stalled
                            \/ pipe'.ports[entry(k).port].tail # NoId}
       IN /\ diu'.portBusyStalls - diu.portBusyStalls <= Cardinality(skipped)
          /\ \A p \in Ports :
               (/\ ~pipe.ports[p].stalled
                /\ \E k \in ready : entry(k).port = p) =>
                 pipe'.ports[p].tail # NoId]_vars

\* C38: after every tick, issue, forwardOperands and purgeFlushed call of
\* the out-of-order dispatch/issue unit, readyCount equals the number of
\* entries of the reservation station whose uop can execute.
C38_ReadyCountMatchesStation ==
  diu.readyCount = Cardinality(readyEntries(diu, insn))


(***************************************************************************)
(* Specification of conditional stores in the LSQ, in either completion   *)
(* order: stores, conditional or plain, are dispatched in program order;   *)
(* the store at the front of the store queue is started and committed once *)
(* the conditional stores before it have been delivered to a completion    *)
(* slot; the LSQ and the MMU tick and the memory answers, a conditional     *)
(* store with success or failure.                                          *)
(***************************************************************************)
CondIds == 0..(MaxCondStores - 1)

InitCond ==
  /\ cfg \in SendConfigs
  /\ insn = [i \in CondIds |-> NoInsn]
  /\ mmu = EmptyMMU
  /\ port = EmptyBag
  /\ mem = [a \in MemAddrs |-> 0]
  /\ issued = [LD |-> 0, STR |-> 0]
  /\ nextSeq = 0
  /\ faultCalls = 0
  /\ err = FALSE
  /\ lsq \in {EmptyLSQ("INORDER"), EmptyLSQ("OUTOFORDER")}
  /\ core = EmptyCore
  /\ pipe = EmptyPipe
  /\ rob = EmptyROB
  /\ rat = EmptyRAT
  /\ diu = NoDIU
  /\ hist = [failed |-> {}]

\* Dispatch of the next store in program order, conditional or plain.
CondDispatch ==
  /\ nextSeq < MaxCondStores
  /\ \E isStoreCond \in BOOLEAN :
       \E w \in {[LSQWorld EXCEPT
                    !.insn[nextSeq] =
                       [NewInsn("store", <<[vaddr |-> 0, size |-> 1]>>, FALSE)
                          EXCEPT !.storeCond = isStoreCond]]} :
         LSQBecomes(addStore(w, nextSeq), "ex")
  /\ nextSeq' = nextSeq + 1
  /\ UNCHANGED <<diu, cfg, rob, rat, mem, faultCalls, hist>>

\* The conditional stores older than id have their result and have been
\* written to a completion slot.
olderCondStoresDelivered(uops, slots, id) ==
  \A older \in 0..(id - 1) :
    (uops[older].kind = "store" /\ uops[older].storeCond) =>
      uops[older].condResultReady /\ older \in slots

\* The store at the front of the store queue executes: its data goes to
\* the LSQ, and the LSQ starts and commits it.
CondStartStore ==
  /\ Len(lsq.storeQueue) > 0
  /\ \E id \in {lsq.storeQueue[1].id} :
       /\ olderCondStoresDelivered(insn, pipe.slots, id)
       /\ LET tgts == insn[id].tgts
              uop == [execute(insn[id]) EXCEPT
                        !.addrs = tgts,
                        !.data = [k \in 1..Len(tgts) |-> StoreBytes(id, tgts[k].size)]]
          IN \E w \in {supplyStoreData([LSQWorld EXCEPT !.insn[id] = uop], id)} :
               \E started \in {startStore(w, id)} :
                 LSQBecomes(commitStore(started, id).w, "ex")
  /\ UNCHANGED <<diu, cfg, rob, rat, mem, nextSeq, faultCalls, hist>>

\* LoadStoreQueue::tick().
CondTick ==
  /\ lsq.tickCounter < MaxCondTicks
  /\ \E w \in {lsqTick(LSQWorld)} : LSQBecomes(w, "ex")
  /\ UNCHANGED <<diu, cfg, rob, rat, mem, nextSeq, faultCalls, hist>>

\* One cycle of the MMU.
CondMMUTick ==
  /\ mmu.ld # <<>> \/ mmu.str # <<>>
  /\ \E w \in {mmuTick(LSQWorld, AllOK)} : LSQBecomes(w, "ex")
  /\ UNCHANGED <<diu, cfg, rob, rat, mem, nextSeq, faultCalls, hist>>

\* The memory answers one of the packets it holds; the write of a
\* conditional store may fail, and then the memory is not written.
CondMemRespond ==
  /\ \E pkt \in BagToSet(port) :
       \E hasFailed \in IF insn[pkt.insnSeqId].storeCond THEN BOOLEAN ELSE {FALSE} :
         /\ mem' = IF hasFailed THEN mem ELSE memWrite(mem, pkt)
         /\ \E w \in {receive([LSQWorld EXCEPT !.port = @ (-) SetToBag({pkt})],
                              [memResponse(mem, pkt) EXCEPT !.failed = hasFailed])} :
              LSQBecomes(w, "ex")
         /\ hist' = [failed |-> IF hasFailed THEN hist.failed \cup {pkt.insnSeqId}
                                ELSE hist.failed]
  /\ UNCHANGED <<diu, cfg, rob, rat, nextSeq, faultCalls>>

NextCond ==
  \/ CondDispatch
  \/ CondStartStore
  \/ CondTick
  \/ CondMMUTick
  \/ CondMemRespond

SpecCond == InitCond /\ [][NextCond]_vars

\* C37: in both completion orders, requestedCondStore_ does not name a
\* conditional store that has its result and has been delivered to a
\* completion slot, and when a conditional store is started after the
\* conditional stores before it were delivered, no conditional store is in
\* flight: the assertion of startStore holds.
C37_CondStoreClearedWhenComplete ==
  [][/\ lsq.requestedCondStore # NoId =>
          ~(/\ insn[lsq.requestedCondStore].condResultReady
            /\ lsq.requestedCondStore \in pipe.slots)
     /\ \A id \in CondIds :
          (/\ insn[id].kind = "store"
           /\ insn[id].storeCond
           /\ Len(insn[id].addrs) = 0
           /\ Len(insn'[id].addrs) > 0
           /\ olderCondStoresDelivered(insn, pipe.slots, id)) =>
             lsq.requestedCondStore = NoId]_vars

(***************************************************************************)
(* Specification of the MMU with the untimed writes of state changes: the  *)
(* driver of the MMU above, and calls of requestWrite(target, data) under  *)
(* any page table.                                                         *)
(***************************************************************************)
\* Loads and stores are not exclusive, two requests of each type fit, and
\* a cycle has the bandwidth for two bytes of stores.
PendingConfigs ==
  {c \in Configs : /\ ~c.exclusiveRequests
                   /\ c.requestLimit = 2
                   /\ c.loadRequestLimit = 2
                   /\ c.storeRequestLimit = 2
                   /\ c.storeBandwidth = 2}

InitPending ==
  /\ cfg \in PendingConfigs
  /\ insn = [i \in Ids |-> NoInsn]
  /\ mmu = EmptyMMU
  /\ port = EmptyBag
  /\ mem = [a \in MemAddrs |-> 0]
  /\ issued = [LD |-> 0, STR |-> 0]
  /\ nextSeq = 0
  /\ faultCalls = 0
  /\ err = FALSE
  /\ lsq = EmptyLSQ("INORDER")
  /\ core = EmptyCore
  /\ pipe = EmptyPipe
  /\ rob = EmptyROB
  /\ rat = EmptyRAT
  /\ diu = NoDIU
  /\ hist = [aborted |-> {}, untimedWrites |-> 0]

\* The targets of the untimed writes: one byte, or two bytes in two cache
\* lines, written by two packets.
WriteTargets == {[vaddr |-> 0, size |-> 1], [vaddr |-> MaxAddr, size |-> MaxSize]}

\* The operating system writes a state change through the MMU.
PendingWriteTarget ==
  /\ hist.untimedWrites < MaxUntimedWrites
  /\ \E target \in WriteTargets, xl \in PageTables :
       /\ \E w \in {requestWriteTarget(MMUWorld, target,
                                        StoreBytes(MaxMMUReqs, target.size), xl)} :
            MMUBecomes(w)
       /\ faultCalls' = countFault(xl)
  /\ hist' = [hist EXCEPT !.untimedWrites = @ + 1]
  /\ UNCHANGED <<diu, cfg, rob, rat, mem, nextSeq, lsq, core, pipe>>

NextPending ==
  \/ MMURequestRead
  \/ MMURequestWrite
  \/ MMUTick
  \/ MemRespond
  \/ MMUSupplyDelayedTranslation
  \/ PendingWriteTarget

SpecPending == InitPending /\ [][NextPending]_vars

\* The data packets created whose response has not been received: in the
\* vectors of the pending instructions, parked on a translation or held by
\* the memory.
outstanding ==
  queuedCount(mmu.ld) + queuedCount(mmu.str) + BagCardinality(port)
    + parkedCount(mmu.pendingRequests)

\* C39: pendingDataRequests_ equals the number of data packets created, by
\* requestRead, requestWrite and the untimed requestWrite, whose response
\* has not been received; it has never been decremented at zero, also not
\* for a response delivered inside issueRequest; hasPendingRequests() holds
\* exactly while a data packet is outstanding.
C39_CounterTracksOutstanding ==
  /\ mmu.pendingDataRequests = outstanding
  /\ ~mmu.decrementedAtZero
  /\ hasPendingRequests(mmu) <=> outstanding > 0

\* C40: in every state the next tick of the MMU makes progress on each
\* queue it processes: if the queue holds an instruction, fewer packets are
\* queued after the tick, whatever the size of the target and the
\* bandwidth, so that every accepted load or store has all its packets
\* issued after finitely many ticks.
C40_TickMakesProgress ==
  LET after == mmuTick(MMUWorld, AllOK).mmu
  IN /\ mmu.str # <<>> => queuedCount(after.str) < queuedCount(mmu.str)
     /\ (mmu.ld # <<>> /\ (cfg.exclusiveRequests => mmu.str = <<>>)) =>
          queuedCount(after.ld) < queuedCount(mmu.ld)

=============================================================================
